---- MODULE Spec2Model ----
(***************************************************************************)
(* A model of the WinVPN-Manager backend (app/core/powershell_backend.py): *)
(* the connection controller (connect, disconnect, connect_and_wait with   *)
(* its one-shot credential recovery), the profile repository (list, get    *)
(* status, create/update/delete) and the privilege gate.  The external     *)
(* tools (rasdial.exe, rasphone.exe, powershell.exe) are the environment:  *)
(* every command the backend runs gets one of a small set of outcomes.     *)
(* Text is kept as real strings, so the substring heuristic, str.lower()   *)
(* and str.strip() are computed as Python computes them.                   *)
(***************************************************************************)
EXTENDS Integers, Sequences, FiniteSets, Bags, TLC

VARIABLES
    pc,          \* position of the running backend call
    call,        \* the running call: operation and arguments
    first,       \* _connect_with_credential_recovery: result of the first connect
    prompt,      \* ... result of open_native_credential_prompt
    retry,       \* ... result of the retry connect, as connect returned it
    dispatch,    \* value returned by _connect_with_credential_recovery
    waited,      \* connect_and_wait: accumulated wait
    last_status, \* connect_and_wait: last_status
    ret,         \* what the call handed to its caller (value or raised exception)
    last_error,  \* PowerShellRasBackend.last_error
    admin,       \* what IsUserAnAdmin answers during the running call ("" before it is drawn)
    admin_error, \* create/update/delete_profile: admin_error, the value of _ensure_admin
    log,         \* history: external commands and sleeps of the running call
    fn,          \* the function applied last to arguments of its own ("" when none was)
    args,        \* ... its arguments
    value,       \* ... the value it returned
    store,       \* the profiles the external store holds, in the order they were added
    created,     \* the spec and scope of the last create_profile that succeeded
    window       \* the MainWindow: its fields, its widgets, its thread pool

vars == <<pc, call, first, prompt, retry, dispatch, waited, last_status,
          ret, last_error, admin, admin_error, log, fn, args, value, store, created,
          window>>

\* the state of one backend call and of the backend object
backend == <<pc, call, first, prompt, retry, dispatch, waited, last_status,
             ret, last_error, admin, admin_error, log>>

\* a function applied outside any call
pure == <<fn, args, value>>

\* the external profile store
storage == <<store, created>>

\* the state that the backend operations of Next do not touch
outside == <<pure, storage, window>>

(***************************************************************************)
(* Bounds                                                                  *)
(***************************************************************************)
MaxWait == 3        \* largest max_wait a caller passes
MaxInterval == 2    \* largest poll_interval a caller passes
MaxPolls == 3       \* cap on status polls of one connect_and_wait
MaxWorkers == 2     \* cap on the workers the thread pool holds at one time

(***************************************************************************)
(* Text: Python str operations on TLA+ strings                             *)
(***************************************************************************)
CharAt(s, i) == SubSeq(s, i, i)

\* the letters str.lower() changes in the texts handled here (ASCII)
LowerMap ==
    ("A" :> "a") @@ ("B" :> "b") @@ ("C" :> "c") @@ ("D" :> "d") @@ ("E" :> "e") @@
    ("F" :> "f") @@ ("G" :> "g") @@ ("H" :> "h") @@ ("I" :> "i") @@ ("J" :> "j") @@
    ("K" :> "k") @@ ("L" :> "l") @@ ("M" :> "m") @@ ("N" :> "n") @@ ("O" :> "o") @@
    ("P" :> "p") @@ ("Q" :> "q") @@ ("R" :> "r") @@ ("S" :> "s") @@ ("T" :> "t") @@
    ("U" :> "u") @@ ("V" :> "v") @@ ("W" :> "w") @@ ("X" :> "x") @@ ("Y" :> "y") @@
    ("Z" :> "z")

UpperLetters == DOMAIN LowerMap

\* str.lower() of one character
LowerChar(c) == IF c \in UpperLetters THEN LowerMap[c] ELSE c

RECURSIVE Lower(_)
\* str.lower(), character by character (halving keeps the evaluation shallow)
Lower(s) ==
    IF Len(s) = 0 THEN ""
    ELSE IF Len(s) = 1 THEN LowerChar(s)
    ELSE LET h == Len(s) \div 2
         IN  Lower(SubSeq(s, 1, h)) \o Lower(SubSeq(s, h + 1, Len(s)))

\* `f in s`
Contains(s, f) ==
    \E i \in 1..(Len(s) - Len(f) + 1) : SubSeq(s, i, i + Len(f) - 1) = f

IsSpace(c) == c \in {" ", "\n", "\t", "\r"}

RECURSIVE LStrip(_)
LStrip(s) ==
    IF Len(s) > 0 /\ IsSpace(CharAt(s, 1)) THEN LStrip(SubSeq(s, 2, Len(s))) ELSE s

RECURSIVE RStrip(_)
RStrip(s) ==
    IF Len(s) > 0 /\ IsSpace(CharAt(s, Len(s)))
    THEN RStrip(SubSeq(s, 1, Len(s) - 1)) ELSE s

\* str.strip()
Strip(s) == RStrip(LStrip(s))

\* `a or b` on strings
Or(a, b) == IF a # "" THEN a ELSE b

\* "\n".join(part for part in [stdout, stderr] if part)
JoinLines(a, b) ==
    IF a # "" /\ b # "" THEN a \o "\n" \o b ELSE a \o b

(***************************************************************************)
(* OperationResult (core/models.py)                                        *)
(***************************************************************************)
OperationResult(success, message, status, details) ==
    [success |-> success, message |-> message, status |-> status, details |-> details]

\* the value of a result variable that holds no result yet
NoResult == [success |-> FALSE, message |-> "<none>", status |-> "<none>", details |-> "<none>"]

(***************************************************************************)
(* Credential-issue heuristic                                              *)
(***************************************************************************)
CredentialFragments ==
    { "ras-fehler 691", "error 691", " 691", "benutzername", "kennwort",
      "authentifizierungsprotokoll", "verweigert", "credential", "password",
      "username", "timed out" }

ContainsAny(combined, fragments) == \E f \in fragments : Contains(combined, f)

_is_credential_issue(message, details) ==
    ContainsAny(Lower(message \o "\n" \o details), CredentialFragments)

_add_credential_hint(message, details) ==
    LET hint == "Please connect once via Windows VPN settings and save credentials."
        text == Strip(message)
    IN  IF _is_credential_issue(message, details) THEN text \o " " \o hint ELSE text

(***************************************************************************)
(* The environment: what one external process run can yield                *)
(*   timeout = TRUE : subprocess.run raised subprocess.TimeoutExpired      *)
(*   otherwise      : CompletedProcess(returncode, stdout, stderr)         *)
(***************************************************************************)
Proc(rc, out, err) == [timeout |-> FALSE, rc |-> rc, stdout |-> out, stderr |-> err]
ProcTimeout == [timeout |-> TRUE, rc |-> 0 - 1, stdout |-> "", stderr |-> ""]

\* rasdial.exe <name> [/PHONEBOOK:..]
RasdialConnectOutcomes ==
    { Proc(0, "Command completed successfully.\n", ""),
      Proc(691, "Remote Access error 691 - The user name or password is not recognized.\n", ""),
      Proc(691, "RAS-FEHLER 691: ZUGRIFF VERWEIGERT\n", ""),
      Proc(868, "Remote Access error 868 - server unreachable\n", ""),
      Proc(1, "", ""),
      ProcTimeout }

\* rasdial.exe <name> [/PHONEBOOK:..] /disconnect
RasdialDisconnectOutcomes ==
    { Proc(0, "Command completed successfully.\n", ""),
      Proc(0, "", ""),
      Proc(1, "", "No connections\n"),
      ProcTimeout }

\* rasphone.exe -d <name>: "ok" the process ran (any exit code), "timeout" it
\* outlived the bounded wait, "oserror" it could not be started
PromptOutcomes == {"ok", "timeout", "oserror"}

\* powershell.exe running a mutating command
PowerShellOutcomes ==
    { Proc(0, "", ""),
      Proc(1, "", "Add-VpnConnection : Access is denied.\n"),
      Proc(1, "The VPN connection was not found.\n", ""),
      Proc(1, "", ""),
      ProcTimeout }

(***************************************************************************)
(* JSON values as ConvertTo-Json / json.loads hand them over               *)
(***************************************************************************)
JStr(s) == [t |-> "str", s |-> s, l |-> <<>>]
JNone == [t |-> "none", s |-> "", l |-> <<>>]
JList(l) == [t |-> "list", s |-> "", l |-> l]

\* bool(value)
Truthy(v) ==
    CASE v.t = "str" -> v.s # ""
      [] v.t = "list" -> v.l # <<>>
      [] OTHER -> FALSE

RECURSIVE Join(_, _)
\* sep.join(items)
Join(sep, items) ==
    IF items = <<>> THEN ""
    ELSE IF Len(items) = 1 THEN items[1]
    ELSE items[1] \o sep \o Join(sep, Tail(items))

\* str(value)
Str(v) ==
    CASE v.t = "str" -> v.s
      [] v.t = "none" -> "None"
      [] OTHER -> IF v.l = <<>> THEN "[]" ELSE "['" \o Join("', '", v.l) \o "']"

\* a key the object does not have
JMissing == [t |-> "missing", s |-> "", l |-> <<>>]

\* dict.get(key, default)
Get(entry, key, default) == IF entry[key].t = "missing" THEN default ELSE entry[key]

\* value or default
OrElse(v, default) == IF Truthy(v) THEN v ELSE default

_stringify(v) ==
    CASE v.t = "none" -> ""
      [] v.t = "list" -> Join(", ", v.l)
      [] OTHER -> Str(v)

\* the properties Select-Object can put on a row
Fields == {"Name", "ServerAddress", "TunnelType", "AuthenticationMethod", "ConnectionStatus"}
EmptyRow == [k \in Fields |-> JMissing]

\* what json.loads makes of a command's stripped stdout
JInvalid == [t |-> "invalid", obj |-> EmptyRow, items |-> <<>>]
JNull == [t |-> "null", obj |-> EmptyRow, items |-> <<>>]
JObject(o) == [t |-> "object", obj |-> o, items |-> <<>>]
JArray(a) == [t |-> "array", obj |-> EmptyRow, items |-> a]

\* a structured query's process outcome: the process, and the parse of its stdout
Query(proc, parsed) == [proc |-> proc, parsed |-> parsed]

\* raw ConnectionStatus strings of the external subsystem ("NotConnected" is the
\* raw form main_window.py:272 expects next to "Disconnected")
RawStatuses == {"Connected", "Connecting", "Disconnected", "NotConnected"}

StatusRow(v) == [EmptyRow EXCEPT !["ConnectionStatus"] = v]

StatusAnswer(s) ==
    Query(Proc(0, "{ \"ConnectionStatus\": \"" \o s \o "\" }\n", ""), JObject(StatusRow(JStr(s))))

\* Get-VpnConnection -Name <name> | Select-Object ConnectionStatus | ConvertTo-Json
StatusQueryOutcomes ==
    { Query(ProcTimeout, JInvalid),
      Query(Proc(1, "", "Get-VpnConnection : The VPN connection was not found.\n"), JInvalid),
      Query(Proc(0, "WARNING: profile store is busy\n", ""), JInvalid),
      Query(Proc(0, "\n", ""), JInvalid),
      Query(Proc(0, "{ \"ConnectionStatus\": null }\n", ""), JObject(StatusRow(JNone))) }
    \cup { StatusAnswer(s) : s \in RawStatuses }

\* the answers the polls of connect_and_wait are given
PollOutcomes ==
    { Query(ProcTimeout, JInvalid),
      Query(Proc(1, "", "Get-VpnConnection : The VPN connection was not found.\n"), JInvalid),
      Query(Proc(0, "\n", ""), JInvalid),
      StatusAnswer("Connected"), StatusAnswer("Connecting"), StatusAnswer("NotConnected") }

(***************************************************************************)
(* Command executor.  A function's outcome is [exc, msg, val]: exc = ""    *)
(* when it returned val, else the class of the exception it raised.        *)
(***************************************************************************)
Return(v) == [exc |-> "", msg |-> "", val |-> v]
Raise(cls, msg, like) == [exc |-> cls, msg |-> msg, val |-> like]
Raised(r) == r.exc # ""

_run_powershell_json(q) ==
    LET stdout == Strip(q.proc.stdout)
        stderr == Strip(q.proc.stderr)
    IN  IF q.proc.timeout THEN Raise("TimeoutExpired", "", <<>>)
        ELSE IF q.proc.rc # 0
        THEN Raise("RuntimeError", Or(stderr, Or(stdout, "PowerShell command failed.")), <<>>)
        ELSE IF stdout = "" THEN Return(<<>>)
        ELSE IF q.parsed.t = "invalid"
        THEN Raise("RuntimeError", "Failed to parse PowerShell output: Expecting value", <<>>)
        ELSE IF q.parsed.t = "null" THEN Return(<<>>)
        ELSE IF q.parsed.t = "object" THEN Return(<<q.parsed.obj>>)
        ELSE Return(q.parsed.items)

_run_powershell(p, success_message) ==
    LET stdout == Strip(p.stdout)
        stderr == Strip(p.stderr)
        details == JoinLines(stdout, stderr)
    IN  IF p.timeout THEN Raise("TimeoutExpired", "", NoResult)
        ELSE IF p.rc # 0
        THEN Return(OperationResult(FALSE, Or(stderr, Or(stdout, "PowerShell command failed.")),
                                    "Error", details))
        ELSE Return(OperationResult(TRUE, success_message, "", details))

_run_rasdial(p) ==
    LET stdout == Strip(p.stdout)
        stderr == Strip(p.stderr)
        details == JoinLines(stdout, stderr)
    IN  IF p.timeout
        THEN OperationResult(FALSE,
                 _add_credential_hint("rasdial timed out while waiting for credentials.", ""),
                 "Error", "")
        ELSE IF p.rc # 0
        THEN OperationResult(FALSE,
                 _add_credential_hint(Or(stderr, Or(stdout, "rasdial returned an error.")), details),
                 "Error", details)
        ELSE OperationResult(TRUE, Or(stdout, "rasdial completed."), "Connected", details)

\* get_status, given the outcome of its query
get_status(q) ==
    LET data == _run_powershell_json(q)
    IN  IF data.exc = "RuntimeError" THEN Return("Error")
        ELSE IF Raised(data) THEN Raise(data.exc, data.msg, "")
        ELSE IF data.val = <<>> THEN Return("Unknown")
        ELSE Return(Str(OrElse(Get(data.val[1], "ConnectionStatus", JNone), JStr("Unknown"))))

open_native_credential_prompt(name, wait, timeout, o) ==
    IF wait /\ o = "timeout"
    THEN OperationResult(FALSE, "Windows credential prompt timed out after " \o timeout \o " seconds.",
                         "Error", "")
    ELSE IF o = "oserror"
    THEN OperationResult(FALSE,
             "Could not open Windows credential prompt: [WinError 2] The system cannot find the file specified",
             "Error", "")
    ELSE OperationResult(TRUE, "Opened Windows credential prompt for " \o name \o ".", "", "")

(***************************************************************************)
(* Profile repository: rows of a listing query                             *)
(***************************************************************************)
VpnProfile(name, server, tunnel, auth, status, all_users) ==
    [name |-> name, server_address |-> server, tunnel_type |-> tunnel,
     authentication_method |-> auth, connection_status |-> status, all_users |-> all_users]

RowOf(name, server, tunnel, auth, status) ==
    [k \in Fields |->
        CASE k = "Name" -> name
          [] k = "ServerAddress" -> server
          [] k = "TunnelType" -> tunnel
          [] k = "AuthenticationMethod" -> auth
          [] OTHER -> status]

UserRowA == RowOf(JStr("Work"), JStr("vpn.example.com"), JStr("Ikev2"),
                  JList(<<"Eap", "MsChapv2">>), JStr("Connected"))
UserRowB == RowOf(JStr("Home"), JStr("10.0.0.1"), JMissing, JNone, JNone)
SystemRowA == RowOf(JStr("Work"), JStr("corp.example.com"), JStr("Sstp"),
                    JStr("Eap"), JStr("NotConnected"))

\* Get-VpnConnection | Select-Object Name,... | ConvertTo-Json
UserListOutcomes ==
    { Query(ProcTimeout, JInvalid),
      Query(Proc(1, "", "Get-VpnConnection : The RasMan service is not running.\n"), JInvalid),
      Query(Proc(0, "WARNING: profile store is busy\n", ""), JInvalid),
      Query(Proc(0, "", ""), JInvalid),
      Query(Proc(0, "{ \"Name\": \"Work\" }\n", ""), JObject(UserRowA)),
      Query(Proc(0, "[ { \"Name\": \"Work\" }, { \"Name\": \"Home\" } ]\n", ""),
            JArray(<<UserRowA, UserRowB>>)) }

\* Get-VpnConnection -AllUserConnection | Select-Object Name,... | ConvertTo-Json
SystemListOutcomes ==
    { Query(ProcTimeout, JInvalid),
      Query(Proc(1, "", "Get-VpnConnection : Access is denied.\n"), JInvalid),
      Query(Proc(0, "", ""), JInvalid),
      Query(Proc(0, "{ \"Name\": \"Work\" }\n", ""), JObject(SystemRowA)) }

RECURSIVE _to_profiles(_, _)
_to_profiles(data, all_users) ==
    IF data = <<>> THEN <<>>
    ELSE LET entry == Head(data)
         IN  << VpnProfile(
                    Str(Get(entry, "Name", JStr(""))),
                    _stringify(Get(entry, "ServerAddress", JNone)),
                    Or(_stringify(Get(entry, "TunnelType", JNone)), "Automatic"),
                    _stringify(Get(entry, "AuthenticationMethod", JNone)),
                    _stringify(OrElse(Get(entry, "ConnectionStatus", JNone), JStr("Unknown"))),
                    all_users) >>
             \o _to_profiles(Tail(data), all_users)

\* _list_user_profiles / _list_all_user_profiles, given the outcome of the query
_list_profiles_of(q, all_users) ==
    LET data == _run_powershell_json(q)
    IN  IF Raised(data) THEN data ELSE Return(_to_profiles(data.val, all_users))

(***************************************************************************)
(* Privilege gate                                                          *)
(***************************************************************************)
\* ctypes.windll.shell32.IsUserAnAdmin(): "yes" / "no" as it answers, "fault"
\* when the query raises
AdminOutcomes == {"yes", "no", "fault"}

\* _is_admin that fails open: a faulting elevation query counts as elevated
_is_admin_fail_open(a) == a # "no"

_is_admin(a) == a = "yes"

AdminError ==
    OperationResult(FALSE,
        "Admin privileges are required to manage system-wide VPN profiles. Run the app as Administrator.",
        "Error", "")

\* the value of admin_error while _ensure_admin has not been called
NotAsked == [success |-> FALSE, message |-> "<not called>", status |-> "<none>", details |-> "<none>"]

\* _ensure_admin with the gate left out
_ensure_admin_open(all_users, a) == NoResult

\* _ensure_admin that forgets the scope: every caller must be elevated
_ensure_admin_any_scope(all_users, a) ==
    IF a = "yes" THEN NoResult ELSE AdminError

\* None is modelled as NoResult
_ensure_admin(all_users, a) ==
    IF ~all_users \/ _is_admin(a) THEN NoResult ELSE AdminError

(***************************************************************************)
(* State                                                                   *)
(***************************************************************************)
Names == {"Work", "Home"}

\* no VpnProfileSpec
NoSpec == [spec |-> [name |-> "", server_address |-> "", tunnel_type |-> ""], all_users |-> FALSE]

NoCall == [op |-> "none", name |-> "", all_users |-> FALSE,
           poll_interval |-> 0, max_wait |-> 0, flag |-> FALSE]
Call(op, name, all_users) == [NoCall EXCEPT !.op = op, !.name = name, !.all_users = all_users]

\* ret.kind: "none" nothing handed over yet, "result" an OperationResult,
\* "status" a status string, "profiles" a list of VpnProfile, "raise" an exception
NoRet == [kind |-> "none", result |-> NoResult, status |-> "", profiles |-> <<>>, exc |-> ""]
RetResult(r) == [NoRet EXCEPT !.kind = "result", !.result = r]
RetStatus(s) == [NoRet EXCEPT !.kind = "status", !.status = s]
RetProfiles(ps) == [NoRet EXCEPT !.kind = "profiles", !.profiles = ps]
RetRaise(cls) == [NoRet EXCEPT !.kind = "raise", !.exc = cls]

\* how a structured query failed: "timeout", "exit" (non-zero exit), "parse"
\* (output that is not JSON), or "" when it did not fail
QueryFault(q) ==
    IF q.proc.timeout THEN "timeout"
    ELSE IF q.proc.rc # 0 THEN "exit"
    ELSE IF Strip(q.proc.stdout) # "" /\ q.parsed.t = "invalid" THEN "parse"
    ELSE ""

\* history entries: one per external command, elevation query or sleep, with
\* what the backend made of it (out) and, for a query, how the command failed
Ev(cmd, out) == [cmd |-> cmd, out |-> out, fault |-> ""]
Count(cmd) == Cardinality({i \in 1..Len(log) : log[i].cmd = cmd})
StatusEv(q, s) ==
    [cmd |-> "status", out |-> IF Raised(s) THEN "<" \o s.exc \o ">" ELSE s.val,
     fault |-> QueryFault(q)]
\* a listing query: rows are the rows the query yielded (none when it failed)
ListEv(cmd, q) ==
    LET data == _run_powershell_json(q)
    IN  [cmd |-> cmd, out |-> IF Raised(data) THEN "<" \o data.exc \o ">" ELSE "ok",
         fault |-> QueryFault(q), rows |-> data.val]

\* Optional[...] without a value
None == <<>>

\* a Worker of the thread pool: the backend function and its arguments
Worker(f, name, all_users) == [fn |-> f, name |-> name, all_users |-> all_users]

\* no worker's signal has reached a slot
NotDelivered ==
    [worker |-> Worker("", "", FALSE), emitted |-> {}, signal |-> "", result |-> NoRet]

\* the window when MainWindow.__init__ returns: the widgets as _build_ui made
\* them, the fields of lines 39-54, and the refresh of line 61 dispatched.
\* A widget's field is its enabled flag; thread_pool is the bag of the workers
\* started whose signal no slot has handled yet; dialog is the modal dialog
\* that is open ("" for none) and dialog_profile the profile a question box is
\* about.  Three fields tell what the last step did: delivered is the worker
\* whose signal it handled, with what the worker's function had handed back
\* and the signals run() emitted for it; log_output holds the lines it
\* appended, logger_error the text it gave to logger.error
Constructed ==
    [profiles |-> <<>>, filtered_profiles |-> <<>>,
     pending_status_key |-> None, pending_profile_key |-> None,
     pending_delete_row |-> None,
     selection_key_to_restore |-> None, selection_row_to_restore |-> None,
     busy |-> FALSE, refresh_in_flight |-> TRUE, active_refresh_silent |-> FALSE,
     refresh_button |-> FALSE, include_all_users |-> FALSE, new_button |-> TRUE,
     edit_button |-> FALSE, delete_button |-> FALSE, credentials_button |-> FALSE,
     connect_button |-> FALSE,
     include_all_users_checked |-> FALSE, currentRow |-> 0 - 1,
     dialog |-> "", dialog_profile |-> None,
     log_output |-> <<"Refreshing VPN profiles...">>, logger_error |-> "",
     delivered |-> NotDelivered,
     thread_pool |-> SetToBag({Worker("list_profiles", "", FALSE)})]

Init ==
    /\ pc = "idle"
    /\ call = NoCall
    /\ first = NoResult
    /\ prompt = NoResult
    /\ retry = NoResult
    /\ dispatch = NoResult
    /\ waited = 0
    /\ last_status = ""
    /\ ret = NoRet
    /\ last_error = ""
    /\ admin = ""
    /\ admin_error = NotAsked
    /\ log = <<>>
    /\ fn = ""
    /\ args = <<>>
    /\ value = ""
    /\ store = <<>>
    /\ created = NoSpec
    /\ window = Constructed

(***************************************************************************)
(* connect_and_wait                                                        *)
(***************************************************************************)
\* IsConnected with the comparison made against the raw string
IsConnectedCaseSensitive(status) == status = "connected"

\* line 80
IsConnected(status) == Lower(status) = "connected"

\* IsError with the check for an explicit error left out
IsErrorIgnored(status) == FALSE

\* line 86
IsError(status) == Lower(status) = "error"

\* LoopContinues with the deadline itself still inside the loop
LoopContinuesInclusive(w, max_wait) == w <= max_wait

\* line 76
LoopContinues(w, max_wait) == w < max_wait

\* DispatchFailed with the check of the dispatch left out
DispatchFailedIgnored(result) == FALSE

\* line 70
DispatchFailed(result) == ~result.success

\* lines 71-72
DispatchFailure(result) == [result EXCEPT !.status = "Error"]

\* lines 81-85
ConnectedResult(name, status) ==
    OperationResult(TRUE, "Connected to " \o name \o ".", status, "")

\* lines 89-97
TimeoutResult(name, status, details) ==
    LET hinted == _add_credential_hint("Timed out waiting for " \o name \o " to connect.", details)
        message == IF _is_credential_issue(hinted, details)
                   THEN hinted \o " Please save credentials in the Windows prompt."
                   ELSE hinted
    IN  OperationResult(FALSE, message, IF status # "" THEN status ELSE "Error", details)

\* NeedsRecovery without the heuristic: every failure starts a recovery
NeedsRecoveryAnyFailure(r) == ~r.success

\* lines 187-190
NeedsRecovery(r) == ~r.success /\ _is_credential_issue(r.message, r.details)

\* RetryAllowed without the check of the prompt's result
RetryAllowedAlways(p) == TRUE

\* line 193
RetryAllowed(p) == p.success

\* RecoveryFailed that hands back the prompt's failure in place of the connect's
RecoveryFailedMasked(f, p) == p

\* lines 194-197
RecoveryFailed(f, p) ==
    [f EXCEPT !.message =
        Strip(f.message \o " Could not complete credential recovery: " \o p.message)]

\* lines 200-206
RetryResult(r, p) ==
    IF r.success
    THEN [r EXCEPT !.message = p.message \o " Retried connection successfully."]
    ELSE [r EXCEPT !.message =
            Strip(r.message \o " Credential prompt was shown and reconnect was retried once.")]

\* the caller invokes connect_and_wait(name, all_users, poll_interval, max_wait)
ConnectAndWait ==
    /\ pc = "idle"
    /\ \E n \in Names, au \in BOOLEAN, pi \in 0..MaxInterval, mw \in 0..MaxWait :
          call' = [Call("connect_and_wait", n, au) EXCEPT !.poll_interval = pi, !.max_wait = mw]
    /\ pc' = "cw_first"
    /\ UNCHANGED <<first, prompt, retry, dispatch, waited, last_status, ret,
                   last_error, admin, admin_error, log>>
    /\ UNCHANGED outside

\* _connect_with_credential_recovery returned r: connect_and_wait lines 70-76,
\* and lines 89-97 when the loop body never runs
Dispatched(r) ==
    /\ dispatch' = r
    /\ waited' = 0
    /\ IF DispatchFailed(r)
       THEN /\ ret' = RetResult(DispatchFailure(r))
            /\ pc' = "done"
            /\ UNCHANGED last_status
       ELSE /\ last_status' = "Connecting"
            /\ IF LoopContinues(0, call.max_wait)
               THEN pc' = "cw_poll" /\ UNCHANGED ret
               ELSE /\ pc' = "done"
                    /\ ret' = RetResult(TimeoutResult(call.name, "Connecting", r.details))

\* line 186: the first connect, and what follows it up to the next command
FirstConnect ==
    /\ pc = "cw_first"
    /\ \E p \in RasdialConnectOutcomes :
          LET r == _run_rasdial(p)
          IN  /\ first' = r
              /\ log' = Append(log, Ev("connect", IF r.success THEN "ok" ELSE "fail"))
              /\ IF NeedsRecovery(r)
                 THEN /\ pc' = "cw_prompt"
                      /\ UNCHANGED <<dispatch, waited, last_status, ret>>
                 ELSE Dispatched(r)
    /\ UNCHANGED <<call, prompt, retry, last_error, admin, admin_error>>
    /\ UNCHANGED outside

\* line 192: the blocking credential prompt
CredentialPrompt ==
    /\ pc = "cw_prompt"
    /\ \E o \in PromptOutcomes :
          LET p == open_native_credential_prompt(call.name, TRUE, "120", o)
          IN  /\ prompt' = p
              /\ log' = Append(log, Ev("prompt", IF p.success THEN "ok" ELSE "fail"))
              /\ IF RetryAllowed(p)
                 THEN /\ pc' = "cw_retry"
                      /\ UNCHANGED <<dispatch, waited, last_status, ret>>
                 ELSE Dispatched(RecoveryFailed(first, p))
    /\ UNCHANGED <<call, first, retry, last_error, admin, admin_error>>
    /\ UNCHANGED outside

\* line 199: the retry connect
RetryConnect ==
    /\ pc = "cw_retry"
    /\ \E p \in RasdialConnectOutcomes :
          LET r == _run_rasdial(p)
          IN  /\ retry' = r
              /\ log' = Append(log, Ev("connect", IF r.success THEN "ok" ELSE "fail"))
              /\ Dispatched(RetryResult(r, prompt))
    /\ UNCHANGED <<call, first, prompt, last_error, admin, admin_error>>
    /\ UNCHANGED outside

\* lines 77-87: one iteration of the polling loop, and the code after the loop
\* when this iteration ends it; the history takes the iteration when recorded
Iteration(recorded) ==
    /\ pc = "cw_poll"
    /\ \E q \in PollOutcomes :
          LET s == get_status(q)
              w == waited + call.poll_interval
          IN  /\ waited' = w
              /\ log' = IF recorded THEN log \o <<Ev("sleep", ""), StatusEv(q, s)>> ELSE log
              /\ IF Raised(s)
                 THEN /\ ret' = RetRaise(s.exc)
                      /\ pc' = "done"
                      /\ UNCHANGED last_status
                 ELSE /\ last_status' = s.val
                      /\ IF IsConnected(s.val)
                         THEN /\ ret' = RetResult(ConnectedResult(call.name, s.val))
                              /\ pc' = "done"
                         ELSE IF IsError(s.val) \/ ~LoopContinues(w, call.max_wait)
                         THEN /\ ret' = RetResult(TimeoutResult(call.name, s.val, dispatch.details))
                              /\ pc' = "done"
                         ELSE /\ pc' = "cw_poll"
                              /\ UNCHANGED ret
    /\ UNCHANGED <<call, first, prompt, retry, dispatch, last_error, admin, admin_error>>
    /\ UNCHANGED outside

\* an iteration of the loop among the first MaxPolls of the call
Poll ==
    /\ Count("status") < MaxPolls
    /\ Iteration(TRUE)

\* an iteration of the loop after the first MaxPolls: the loop goes on, the
\* history keeps the first MaxPolls only
PollOn ==
    /\ Count("status") >= MaxPolls
    /\ Iteration(FALSE)

(***************************************************************************)
(* The other public operations: each runs to its return in one step        *)
(***************************************************************************)
Unused == <<first, prompt, retry, dispatch, waited, last_status>>

\* connect(name, all_users)
Connect ==
    /\ pc = "idle"
    /\ \E n \in Names, au \in BOOLEAN, p \in RasdialConnectOutcomes :
          LET r == _run_rasdial(p)
          IN  /\ call' = Call("connect", n, au)
              /\ log' = <<Ev("connect", IF r.success THEN "ok" ELSE "fail")>>
              /\ ret' = RetResult(r)
    /\ pc' = "done"
    /\ UNCHANGED <<Unused, last_error, admin, admin_error>>
    /\ UNCHANGED outside

\* RequeryStatus with the status re-queried whatever the command yielded
RequeryStatusAlways(result) == TRUE

\* line 58
RequeryStatus(result) == result.success

\* disconnect, the command yielding p and the status query q: the commands it
\* ran and what it handed back
disconnect(p, q) ==
    LET r == _run_rasdial(p)
        s == get_status(q)
    IN  IF RequeryStatus(r)
        THEN [log |-> <<Ev("disconnect", IF r.success THEN "ok" ELSE "fail"), StatusEv(q, s)>>,
              ret |-> IF Raised(s) THEN RetRaise(s.exc)
                      ELSE RetResult([r EXCEPT !.status = s.val])]
        ELSE [log |-> <<Ev("disconnect", "fail")>>, ret |-> RetResult(r)]

\* disconnect(name, all_users)
Disconnect ==
    /\ pc = "idle"
    /\ \E n \in Names, au \in BOOLEAN, p \in RasdialDisconnectOutcomes, q \in StatusQueryOutcomes :
          /\ call' = Call("disconnect", n, au)
          /\ log' = disconnect(p, q).log
          /\ ret' = disconnect(p, q).ret
    /\ pc' = "done"
    /\ UNCHANGED <<Unused, last_error, admin, admin_error>>
    /\ UNCHANGED outside

\* get_status(name, all_users)
GetStatus ==
    /\ pc = "idle"
    /\ \E n \in Names, au \in BOOLEAN, q \in StatusQueryOutcomes :
          LET s == get_status(q)
          IN  /\ call' = Call("get_status", n, au)
              /\ log' = <<StatusEv(q, s)>>
              /\ ret' = IF Raised(s) THEN RetRaise(s.exc) ELSE RetStatus(s.val)
    /\ pc' = "done"
    /\ UNCHANGED <<Unused, last_error, admin, admin_error>>
    /\ UNCHANGED outside

\* open_native_credential_prompt(name, all_users, wait)
OpenNativeCredentialPrompt ==
    /\ pc = "idle"
    /\ \E n \in Names, au \in BOOLEAN, wait \in BOOLEAN, o \in PromptOutcomes :
          LET r == open_native_credential_prompt(n, wait, "120", o)
          IN  /\ call' = [Call("open_native_credential_prompt", n, au) EXCEPT !.flag = wait]
              /\ log' = <<Ev("prompt", IF r.success THEN "ok" ELSE "fail")>>
              /\ ret' = RetResult(r)
    /\ pc' = "done"
    /\ UNCHANGED <<Unused, last_error, admin, admin_error>>
    /\ UNCHANGED outside

\* the body shared by create_profile, update_profile and delete_profile: the
\* privilege gate, then one mutating command
\* the success_message of the three mutating operations (lines 113, 135, 145)
SuccessMessage(verb, name) == verb \o " VPN profile " \o name \o "."

\* create/update/delete_profile, the elevation being a and the command yielding
\* p: the value of _ensure_admin, the commands run and what is handed back
Mutation(op, verb, n, au, a, p) ==
    LET gate_result == _ensure_admin(au, a)
        r == _run_powershell(p, SuccessMessage(verb, n))
        gate == IF au THEN <<Ev("is_admin", a)>> ELSE <<>>
    IN  IF gate_result # NoResult
        THEN [admin_error |-> gate_result, log |-> gate, ret |-> RetResult(gate_result)]
        ELSE [admin_error |-> gate_result,
              log |-> Append(gate, [cmd |-> "mutate", out |-> op,
                                    fault |-> IF p.timeout THEN "timeout"
                                              ELSE IF p.rc # 0 THEN "exit" ELSE ""]),
              ret |-> IF Raised(r) THEN RetRaise(r.exc) ELSE RetResult(r.val)]

MutateWith(op, verb, n, au, a, p) ==
    /\ call' = Call(op, n, au)
    /\ admin' = a
    /\ admin_error' = Mutation(op, verb, n, au, a, p).admin_error
    /\ log' = Mutation(op, verb, n, au, a, p).log
    /\ ret' = Mutation(op, verb, n, au, a, p).ret

Mutate(op, verb) ==
    /\ pc = "idle"
    /\ \E n \in Names, au \in BOOLEAN, a \in AdminOutcomes, p \in PowerShellOutcomes :
          MutateWith(op, verb, n, au, a, p)
    /\ pc' = "done"
    /\ UNCHANGED <<Unused, last_error>>
    /\ UNCHANGED outside

CreateProfile == Mutate("create_profile", "Created")
UpdateProfile == Mutate("update_profile", "Updated")
DeleteProfile == Mutate("delete_profile", "Deleted")

AdminAdvisory ==
    "Admin privileges are required to list system-wide VPN profiles. Run the app as Administrator."

\* WantsSystemScope with the flag ignored
WantsSystemScopeAlways(include_all_users) == TRUE

\* line 21
WantsSystemScope(include_all_users) == include_all_users

\* Extend with the two lists the wrong way round
ExtendReversed(profiles, more) == more \o profiles

\* line 29: profiles.extend(...)
Extend(profiles, more) == profiles \o more

\* list_profiles(include_all_users), the own-scope query yielding qu and the
\* all-user query qa, with the elevation a: the commands run, last_error and
\* what is handed back
list_profiles(include_all_users, a, qu, qa) ==
    LET own == _list_profiles_of(qu, FALSE)
        all == _list_profiles_of(qa, TRUE)
        asked == <<ListEv("list_user", qu), Ev("is_admin", a)>>
    IN  IF Raised(own)
        THEN [log |-> <<ListEv("list_user", qu)>>, last_error |-> "",
              ret |-> RetRaise(own.exc)]
        ELSE IF ~WantsSystemScope(include_all_users)
        THEN [log |-> <<ListEv("list_user", qu)>>, last_error |-> "",
              ret |-> RetProfiles(own.val)]
        ELSE IF ~_is_admin(a)
        THEN [log |-> asked, last_error |-> AdminAdvisory, ret |-> RetProfiles(own.val)]
        ELSE IF all.exc = "RuntimeError"
        THEN [log |-> Append(asked, ListEv("list_all", qa)),
              last_error |-> "All-user query failed: " \o all.msg,
              ret |-> RetProfiles(own.val)]
        ELSE IF Raised(all)
        THEN [log |-> Append(asked, ListEv("list_all", qa)), last_error |-> "",
              ret |-> RetRaise(all.exc)]
        ELSE [log |-> Append(asked, ListEv("list_all", qa)), last_error |-> "",
              ret |-> RetProfiles(Extend(own.val, all.val))]

ListProfilesWith(include_all_users, a, qu, qa) ==
    /\ call' = [Call("list_profiles", "", FALSE) EXCEPT !.flag = include_all_users]
    /\ admin' = a
    /\ log' = list_profiles(include_all_users, a, qu, qa).log
    /\ last_error' = list_profiles(include_all_users, a, qu, qa).last_error
    /\ ret' = list_profiles(include_all_users, a, qu, qa).ret

ListProfiles ==
    /\ pc = "idle"
    /\ \E include_all_users \in BOOLEAN, a \in AdminOutcomes,
          qu \in UserListOutcomes, qa \in SystemListOutcomes :
          ListProfilesWith(include_all_users, a, qu, qa)
    /\ pc' = "done"
    /\ UNCHANGED <<Unused, admin_error>>
    /\ UNCHANGED outside

\* the caller has taken the value (or the exception); the backend is idle again
Finish ==
    /\ pc = "done"
    /\ pc' = "idle"
    /\ call' = NoCall
    /\ first' = NoResult
    /\ prompt' = NoResult
    /\ retry' = NoResult
    /\ dispatch' = NoResult
    /\ waited' = 0
    /\ last_status' = ""
    /\ ret' = NoRet
    /\ log' = <<>>
    /\ admin' = ""
    /\ admin_error' = NotAsked
    /\ UNCHANGED <<last_error>>
    /\ UNCHANGED outside

Next ==
    \/ ConnectAndWait
    \/ FirstConnect
    \/ CredentialPrompt
    \/ RetryConnect
    \/ Poll
    \/ Connect
    \/ Disconnect
    \/ GetStatus
    \/ OpenNativeCredentialPrompt
    \/ CreateProfile
    \/ UpdateProfile
    \/ DeleteProfile
    \/ ListProfiles
    \/ Finish

Spec == Init /\ [][Next]_vars

(***************************************************************************)
(* connect_and_wait run to its end: every step of the code is taken in the  *)
(* end (each external command returns), the loop is not cut at MaxPolls     *)
(***************************************************************************)
LiveNext ==
    \/ ConnectAndWait
    \/ FirstConnect
    \/ CredentialPrompt
    \/ RetryConnect
    \/ Poll
    \/ PollOn
    \/ Finish

\* the running call takes its next step in the end. FirstConnect,
\* CredentialPrompt and RetryConnect are enabled exactly at their own position and
\* always leave it, so weak fairness of each of them is the position not being
\* held for ever; the polling loop can keep its position, and gets WF itself
Fairness ==
    /\ []<>(pc # "cw_first")
    /\ []<>(pc # "cw_prompt")
    /\ []<>(pc # "cw_retry")
    /\ WF_vars(Poll \/ PollOn)

LiveSpec == Init /\ [][LiveNext]_vars /\ Fairness

(***************************************************************************)
(* create_profile and list_profiles against an external store that records  *)
(* the mutating command it is given and answers listings from its records   *)
(***************************************************************************)
RECURSIVE Replace(_, _, _)
\* str.replace(old, new) for a one-character old
Replace(text, old, new) ==
    IF text = "" THEN ""
    ELSE (IF CharAt(text, 1) = old THEN new ELSE CharAt(text, 1))
         \o Replace(SubSeq(text, 2, Len(text)), old, new)

_ps_quote(v) == "'" \o Replace(v, "'", "''") \o "'"

RECURSIVE Unescape(_)
\* the text of a single-quoted PowerShell string literal: '' stands for '
Unescape(text) ==
    IF text = "" THEN ""
    ELSE IF Len(text) >= 2 /\ SubSeq(text, 1, 2) = "''"
    THEN "'" \o Unescape(SubSeq(text, 3, Len(text)))
    ELSE CharAt(text, 1) \o Unescape(SubSeq(text, 2, Len(text)))

\* the value PowerShell reads from a single-quoted literal
Literal(token) == Unescape(SubSeq(token, 2, Len(token) - 1))

\* lines 104-112: the Add-VpnConnection command, argument by argument
CreateCommand(spec, all_users) ==
    [ cmdlet |-> "Add-VpnConnection",
      Name |-> _ps_quote(spec.name),
      ServerAddress |-> _ps_quote(spec.server_address),
      TunnelType |-> "'Automatic'",
      AllUserConnection |-> all_users ]

\* the tunnel types a VpnProfileSpec can ask for
TunnelTypes == {"Automatic", "Ikev2", "Sstp", "L2tp", "Pptp"}

\* the specs handed to create_profile
Specs ==
    { [name |-> n, server_address |-> "vpn.example.com", tunnel_type |-> t] :
        n \in {"Work", "O'Neil"}, t \in TunnelTypes }

\* the record the store keeps of an Add-VpnConnection command
Stored(command) ==
    [ all_users |-> command.AllUserConnection,
      row |-> RowOf(JStr(Literal(command.Name)), JStr(Literal(command.ServerAddress)),
                    JStr(Literal(command.TunnelType)), JStr("MsChapv2"),
                    JStr("Disconnected")) ]

\* the store holds a profile of this command's name in this command's scope
Exists(command) ==
    \E i \in 1..Len(store) :
        /\ store[i].all_users = command.AllUserConnection
        /\ store[i].row["Name"] = JStr(Literal(command.Name))

\* the process that ran the command against the store
Added(command) ==
    IF Exists(command)
    THEN Proc(1, "", "Add-VpnConnection : The VPN connection already exists.\n")
    ELSE Proc(0, "", "")

RECURSIVE RowsOf(_, _)
\* the rows of one scope, in the order of the store
RowsOf(records, all_users) ==
    IF records = <<>> THEN <<>>
    ELSE (IF Head(records).all_users = all_users THEN <<Head(records).row>> ELSE <<>>)
         \o RowsOf(Tail(records), all_users)

\* Get-VpnConnection [-AllUserConnection] | Select-Object ... | ConvertTo-Json:
\* nothing for no row, an object for one row, an array for more
Listing(rows) ==
    IF rows = <<>> THEN Query(Proc(0, "", ""), JInvalid)
    ELSE IF Len(rows) = 1 THEN Query(Proc(0, "{ ... }\n", ""), JObject(rows[1]))
    ELSE Query(Proc(0, "[ ... ]\n", ""), JArray(rows))

\* create_profile(spec, all_users) against the store
StoreCreate ==
    /\ pc = "idle"
    /\ \E spec \in Specs, au \in BOOLEAN, a \in AdminOutcomes :
          LET command == CreateCommand(spec, au)
              ran == _ensure_admin(au, a) = NoResult
          IN  /\ MutateWith("create_profile", "Created", spec.name, au, a, Added(command))
              /\ store' = IF ran /\ ~Exists(command) THEN Append(store, Stored(command))
                          ELSE store
              /\ created' = IF ran /\ ~Exists(command)
                            THEN [spec |-> spec, all_users |-> au] ELSE created
    /\ pc' = "done"
    /\ UNCHANGED <<Unused, last_error, pure, window>>

\* list_profiles(include_all_users) against the store
StoreList ==
    /\ pc = "idle"
    /\ \E include_all_users \in BOOLEAN, a \in AdminOutcomes :
          ListProfilesWith(include_all_users, a,
                           Listing(RowsOf(store, FALSE)), Listing(RowsOf(store, TRUE)))
    /\ pc' = "done"
    /\ UNCHANGED <<Unused, admin_error, pure, storage, window>>

StoreNext ==
    \/ StoreCreate
    \/ StoreList
    \/ Finish

StoreSpec == Init /\ [][StoreNext]_vars

(***************************************************************************)
(* The main window (ui/main_window.py) and its workers (core/workers.py).  *)
(* A handler is an operator from the window to the window it leaves.  The  *)
(* filter inputs stay empty and the sort stays on the Name column,         *)
(* ascending, as after construction.  A backend call of a worker hands     *)
(* back one of the values the backend model gives for it; the end of the   *)
(* worker's run and the run of the slot that its signal reaches are one    *)
(* step, as nothing of the window changes between the two.                 *)
(***************************************************************************)
\* _normalize_status that does not strip its input
_normalize_status_unstripped(status) ==
    LET v == Lower(Or(status, ""))
    IN  CASE v = "connected" -> "Connected"
          [] v = "connecting" -> "Connecting"
          [] v \in {"disconnected", "notconnected"} -> "Disconnected"
          [] v = "error" -> "Error"
          [] OTHER -> "Unknown"

\* MainWindow._normalize_status
_normalize_status(status) ==
    LET v == Lower(Strip(Or(status, "")))
    IN  CASE v = "connected" -> "Connected"
          [] v = "connecting" -> "Connecting"
          [] v = "disconnected" \/ v = "notconnected" -> "Disconnected"
          [] v = "error" -> "Error"
          [] OTHER -> "Unknown"

\* _profile_key that leaves the scope out
_profile_key_by_name(profile) == <<profile.name, FALSE>>

\* MainWindow._profile_key
_profile_key(profile) == <<profile.name, profile.all_users>>

_scope_label(profile) == IF profile.all_users THEN "System" ELSE "User"

_status_rank(profile) ==
    IF Lower(_normalize_status(profile.connection_status)) = "connected" THEN 0 ELSE 1

\* the order of Python's str comparison on the characters of lower-cased text
CodeOrder == " '-.0123456789_abcdefghijklmnopqrstuvwxyz"
Code(c) == CHOOSE i \in 1..Len(CodeOrder) : CharAt(CodeOrder, i) = c

RECURSIVE TextLess(_, _)
TextLess(a, b) ==
    IF b = "" THEN FALSE
    ELSE IF a = "" THEN TRUE
    ELSE IF CharAt(a, 1) = CharAt(b, 1)
    THEN TextLess(SubSeq(a, 2, Len(a)), SubSeq(b, 2, Len(b)))
    ELSE Code(CharAt(a, 1)) < Code(CharAt(b, 1))

\* the sort key of lines 315 and 319 with sort_column = 0:
\* (_sort_value_for_column(p), _sort_tiebreaker(p)), flattened
SortKey(p) ==
    <<Lower(p.name), Lower(p.name), Lower(_scope_label(p)), Lower(p.server_address)>>

KeyLess(x, y) ==
    \E i \in 1..Len(x) : /\ \A j \in 1..(i - 1) : x[j] = y[j]
                         /\ TextLess(x[i], y[i])

\* list.sort(key=...): ascending and stable
Insert(sorted, p) ==
    LET k == Cardinality({i \in 1..Len(sorted) : ~KeyLess(SortKey(p), SortKey(sorted[i]))})
    IN  SubSeq(sorted, 1, k) \o <<p>> \o SubSeq(sorted, k + 1, Len(sorted))

RECURSIVE Sorted(_)
Sorted(profiles) ==
    IF profiles = <<>> THEN <<>>
    ELSE Insert(Sorted(SubSeq(profiles, 1, Len(profiles) - 1)), profiles[Len(profiles)])

RankedFirst(profile) == _status_rank(profile) = 0
RankedAfter(profile) == _status_rank(profile) # 0

_sort_profiles(profiles) ==
    Sorted(SelectSeq(profiles, RankedFirst)) \o Sorted(SelectSeq(profiles, RankedAfter))

\* _get_selected_profile returns a profile (and not None)
HasSelection(w) == w.currentRow >= 0 /\ w.currentRow < Len(w.filtered_profiles)

_get_selected_profile(w) == w.filtered_profiles[w.currentRow + 1]

_current_selection_key(w) ==
    IF HasSelection(w) THEN _profile_key(_get_selected_profile(w)) ELSE None

_update_action_state(w) ==
    IF ~HasSelection(w)
    THEN [w EXCEPT !.connect_button = FALSE, !.edit_button = FALSE,
                   !.delete_button = FALSE, !.credentials_button = FALSE]
    ELSE LET status == _normalize_status(_get_selected_profile(w).connection_status)
             controls_enabled == ~w.busy /\ ~w.refresh_in_flight
         IN  [w EXCEPT !.edit_button = controls_enabled,
                       !.delete_button = controls_enabled,
                       !.credentials_button = controls_enabled,
                       !.connect_button = controls_enabled /\ Lower(status) # "connecting"]

\* table.setCurrentCell(row, 0); itemSelectionChanged runs _update_action_state
setCurrentCell(w, row) == _update_action_state([w EXCEPT !.currentRow = row])

\* _populate_table: with the signals blocked, the table gets len(profiles) rows;
\* a current row that is removed moves to the last row left
_populate_table(w, profiles) ==
    [w EXCEPT !.currentRow = IF @ >= Len(profiles) THEN Len(profiles) - 1 ELSE @]

\* the row _select_profile_by_key finds for the key (-1: none)
RowOfKey(w, key) ==
    LET rows == {i \in 1..Len(w.filtered_profiles) : _profile_key(w.filtered_profiles[i]) = key}
    IN  IF rows = {} THEN 0 - 1 ELSE (CHOOSE i \in rows : \A j \in rows : i <= j) - 1

\* line 357, row being the row found for the key
Selected(w, row) == IF row >= 0 THEN setCurrentCell(w, row) ELSE w

_select_profile_by_key(w, key) == Selected(w, RowOfKey(w, key))

Min(a, b) == IF a <= b THEN a ELSE b
Max(a, b) == IF a >= b THEN a ELSE b

_select_row_clamped(w, row) ==
    IF w.filtered_profiles = <<>> THEN w
    ELSE setCurrentCell(w, Max(0, Min(row, Len(w.filtered_profiles) - 1)))

\* lines 256-257, the filter texts being empty
Filtered(w, filtered) == _populate_table([w EXCEPT !.filtered_profiles = filtered], filtered)

\* lines 259-260
Reselected(w, selected_key) ==
    IF selected_key # None THEN _select_profile_by_key(w, selected_key) ELSE w

apply_filter(w) ==
    _update_action_state(
        Reselected(Filtered(w, _sort_profiles(w.profiles)), _current_selection_key(w)))

\* lines 574-579, on one of the two lists
WithStatus(profiles, key, status) ==
    [i \in 1..Len(profiles) |->
        IF _profile_key(profiles[i]) = key
        THEN [profiles[i] EXCEPT !.connection_status = status]
        ELSE profiles[i]]

_update_profile_status(w, key, status) ==
    apply_filter([w EXCEPT !.profiles = WithStatus(@, key, status),
                           !.filtered_profiles = WithStatus(@, key, status)])

_set_busy(w, busy) ==
    LET controls_enabled == ~busy /\ ~w.refresh_in_flight
        set == [w EXCEPT !.busy = busy,
                         !.refresh_button = controls_enabled,
                         !.include_all_users = controls_enabled,
                         !.new_button = ~busy]
    IN  IF busy
        THEN [set EXCEPT !.connect_button = FALSE, !.edit_button = FALSE,
                         !.delete_button = FALSE, !.credentials_button = FALSE]
        ELSE _update_action_state(set)

_log_message(w, message) == [w EXCEPT !.log_output = Append(@, message)]

\* thread_pool.start(Worker(fn, name, all_users))
start(w, f, name, all_users) ==
    [w EXCEPT !.thread_pool = @ (+) SetToBag({Worker(f, name, all_users)})]

\* the value a slot gets for select_key when the clicked signal calls it: the
\* button's checked flag, False
Unchecked == <<FALSE>>

\* Python's truth value of a select_key
IsKey(key) == key # None /\ key # Unchecked

refresh_profiles(w, select_key, select_row, silent) ==
    IF w.refresh_in_flight THEN w
    ELSE LET key == IF select_key = None /\ select_row = None
                    THEN _current_selection_key(w) ELSE select_key
             set == [w EXCEPT !.selection_key_to_restore = key,
                              !.selection_row_to_restore = select_row,
                              !.active_refresh_silent = silent,
                              !.refresh_in_flight = TRUE,
                              !.refresh_button = FALSE,
                              !.include_all_users = FALSE]
             logged == IF ~silent THEN _log_message(set, "Refreshing VPN profiles...") ELSE set
         IN  start(logged, "list_profiles", "", w.include_all_users_checked)

_connect_profile(w, profile) ==
    LET key == _profile_key(profile)
        updated == _update_profile_status([w EXCEPT !.pending_status_key = key], key, "Connecting")
        logged == _log_message(_set_busy(updated, TRUE), "Connecting to " \o profile.name \o "...")
    IN  start(logged, "connect_and_wait", profile.name, profile.all_users)

_disconnect_profile(w, profile) ==
    LET pending == [w EXCEPT !.pending_status_key = _profile_key(profile)]
        logged == _log_message(_set_busy(pending, TRUE),
                               "Disconnecting from " \o profile.name \o "...")
    IN  start(logged, "disconnect", profile.name, profile.all_users)

_toggle_selected(w) ==
    IF w.busy \/ w.refresh_in_flight THEN w
    ELSE IF ~HasSelection(w) THEN w
    ELSE LET profile == _get_selected_profile(w)
             status == Lower(_normalize_status(profile.connection_status))
         IN  IF status = "connecting" THEN w
             ELSE IF status = "connected" THEN _disconnect_profile(w, profile)
             ELSE _connect_profile(w, profile)

\* _delete_profile from line 450 on: the question box has returned; profile is
\* the key of the profile read at line 440
_delete_profile(w, profile, confirmed) ==
    IF ~confirmed THEN w
    ELSE LET pending == [w EXCEPT !.pending_profile_key = profile,
                                  !.pending_delete_row = <<w.currentRow>>]
             logged == _log_message(_set_busy(pending, TRUE),
                                    "Deleting profile " \o profile[1] \o "...")
         IN  start(logged, "delete_profile", profile[1], profile[2])

\* _set_credentials_selected, the prompt's start yielding o
_set_credentials_selected(w, o) ==
    IF ~HasSelection(w) \/ w.busy \/ w.refresh_in_flight THEN w
    ELSE LET result == open_native_credential_prompt(_get_selected_profile(w).name,
                                                     FALSE, "120", o)
         IN  _log_message(w, IF result.success THEN result.message
                             ELSE "Credential prompt failed: " \o result.message)

\* lines 498-504
Restored(w, key, row) ==
    [(IF IsKey(key) /\ RowOfKey(w, key) >= 0 THEN _select_profile_by_key(w, key)
      ELSE IF row # None THEN _select_row_clamped(w, row[1])
      ELSE w)
     EXCEPT !.selection_key_to_restore = None, !.selection_row_to_restore = None]

\* lines 506-511; the line logged for backend.last_error is followed by the
\* line "Loaded ...", so it is never the last line
Reported(w, profiles) ==
    [(IF ~w.active_refresh_silent
      THEN _log_message(w, "Loaded " \o ToString(Len(profiles)) \o " VPN profiles.")
      ELSE w)
     EXCEPT !.active_refresh_silent = FALSE]

_on_profiles_loaded(w, profiles) ==
    Reported(
        Restored(apply_filter([w EXCEPT !.refresh_in_flight = FALSE,
                                        !.refresh_button = ~w.busy,
                                        !.include_all_users = ~w.busy,
                                        !.profiles = profiles]),
                 w.selection_key_to_restore, w.selection_row_to_restore),
        profiles)

\* lines 515-518 and 522-525: w is the window that _set_busy(False) left
StatusUpdated(w, result, missing, failed) ==
    _log_message(
        [(IF w.pending_status_key # None
          THEN _update_profile_status(w, w.pending_status_key, Or(result.status, missing))
          ELSE w)
         EXCEPT !.pending_status_key = None],
        IF result.success THEN result.message ELSE failed \o result.message)

_on_connect_finished(w, result) ==
    StatusUpdated(_set_busy(w, FALSE), result, "Error", "Connect failed: ")

_on_disconnect_finished(w, result) ==
    StatusUpdated(_set_busy(w, FALSE), result, "Disconnected", "Disconnect failed: ")

\* lines 554-560: w is the window that _set_busy(False) left
Deleted(w, result) ==
    [(IF result.success
      THEN refresh_profiles(_log_message(w, result.message), None, w.pending_delete_row, FALSE)
      ELSE _log_message(w, "Delete failed: " \o result.message))
     EXCEPT !.pending_profile_key = None, !.pending_delete_row = None]

_on_delete_finished(w, result) == Deleted(_set_busy(w, FALSE), result)

\* _on_worker_error without its call of _set_busy(False)
_on_worker_error_busy(w, error_text) ==
    LET reset == [w EXCEPT !.refresh_in_flight = FALSE,
                           !.refresh_button = ~w.busy,
                           !.include_all_users = ~w.busy]
        cleared == [reset EXCEPT !.logger_error = error_text,
                                 !.pending_profile_key = None,
                                 !.pending_status_key = None,
                                 !.pending_delete_row = None]
    IN  _log_message(cleared, "Unexpected error. See log file for details.")

_on_worker_error(w, error_text) ==
    LET reset == [w EXCEPT !.refresh_in_flight = FALSE,
                           !.refresh_button = ~w.busy,
                           !.include_all_users = ~w.busy]
        idle == _set_busy(reset, FALSE)
        cleared == [idle EXCEPT !.logger_error = error_text,
                                !.pending_profile_key = None,
                                !.pending_status_key = None,
                                !.pending_delete_row = None]
    IN  _log_message(cleared, "Unexpected error. See log file for details.")

\* Worker.run that emits finished whatever the function did
EmittedFinished(r) == {"finished"}

\* Worker.run: the signal emitted for what the function did
Emitted(r) == IF r.kind = "raise" THEN {"error"} ELSE {"finished"}

\* traceback.format_exc()
Traceback(r) ==
    IF r.kind = "raise" THEN "Traceback (most recent call last): ... " \o r.exc ELSE ""

\* the outcomes of the external commands that the workers of the window meet:
\* for each command one that succeeds, one that fails and one that outlives
\* its timeout, out of the outcomes of the backend model
OwnListings == {q \in UserListOutcomes : q.proc.timeout \/ q.parsed.t = "object"}
SystemListings == {q \in SystemListOutcomes : q.proc.rc = 1 \/ q.parsed.t = "object"}
Elevations == {"yes", "no"}
Disconnections == {p \in RasdialDisconnectOutcomes : p.rc = 1 \/ p.stdout # ""}
StatusAnswers == {Query(ProcTimeout, JInvalid), StatusAnswer("NotConnected")}
Deletions == {p \in PowerShellOutcomes : p.timeout \/ p.rc = 0 \/ p.stderr # ""}
Dispatches == {p \in RasdialConnectOutcomes : p.rc = 868}

\* what list_profiles can hand back
ListProfilesReturns ==
    [include_all_users \in BOOLEAN |->
        { list_profiles(include_all_users, a, qu, qa).ret :
          a \in Elevations, qu \in OwnListings, qa \in SystemListings }]

\* what disconnect can hand back
DisconnectReturns ==
    { disconnect(p, q).ret : p \in Disconnections, q \in StatusAnswers }

\* what delete_profile can hand back
DeleteProfileReturns ==
    [n \in Names |-> [all_users \in BOOLEAN |->
        { Mutation("delete_profile", "Deleted", n, all_users, a, p).ret :
          a \in Elevations, p \in Deletions }]]

\* what connect_and_wait can hand back: connected; the wait ran out; the
\* dispatch failed; a poll outlived its timeout
ConnectAndWaitReturns ==
    [n \in Names |->
        { RetResult(ConnectedResult(n, "Connected")),
          RetResult(TimeoutResult(n, "Connecting", "")),
          RetRaise("TimeoutExpired") }
        \cup { RetResult(DispatchFailure(_run_rasdial(p))) : p \in Dispatches }]

\* what the call of a worker can hand back
Returns(x) ==
    CASE x.fn = "list_profiles" -> ListProfilesReturns[x.all_users]
      [] x.fn = "connect_and_wait" -> ConnectAndWaitReturns[x.name]
      [] x.fn = "disconnect" -> DisconnectReturns
      [] OTHER -> DeleteProfileReturns[x.name][x.all_users]

\* a handler of the main thread has run and left the window w
Handled(w) ==
    /\ BagCardinality(w.thread_pool) <= MaxWorkers
    /\ window' = w
    /\ UNCHANGED <<backend, pure, storage>>

\* the window as a step finds it: the step has done nothing yet
Current ==
    [window EXCEPT !.log_output = <<>>, !.logger_error = "", !.delivered = NotDelivered]

\* the user can reach the main window: no modal dialog is open
Reachable == window.dialog = ""

\* refresh_button.clicked
ClickRefresh ==
    /\ Reachable
    /\ window.refresh_button
    /\ Handled(refresh_profiles(Current, Unchecked, None, FALSE))

\* include_all_users.stateChanged
ToggleIncludeAllUsers ==
    /\ Reachable
    /\ window.include_all_users
    /\ Handled(refresh_profiles(
                 [Current EXCEPT !.include_all_users_checked = ~@], None, None, FALSE))

\* the user makes another row of the table the current one
SelectRow ==
    /\ Reachable
    /\ \E row \in 0..(Len(window.filtered_profiles) - 1) :
          /\ row # window.currentRow
          /\ Handled(setCurrentCell(Current, row))

\* table.itemDoubleClicked: the row becomes the current one, then _toggle_selected
DoubleClickRow ==
    /\ Reachable
    /\ \E row \in 0..(Len(window.filtered_profiles) - 1) :
          Handled(_toggle_selected(setCurrentCell(Current, row)))

\* connect_button.clicked
ClickConnect ==
    /\ Reachable
    /\ window.connect_button
    /\ Handled(_toggle_selected(Current))

\* new_button.clicked: _new_profile up to dialog.exec()
ClickNew ==
    /\ Reachable
    /\ window.new_button
    /\ Handled([Current EXCEPT !.dialog = "profile"])

\* edit_button.clicked: _edit_profile up to dialog.exec()
ClickEdit ==
    /\ Reachable
    /\ window.edit_button
    /\ Handled(IF HasSelection(window)
               THEN [Current EXCEPT !.dialog = "profile"]
               ELSE Current)

\* delete_button.clicked: _delete_profile up to QMessageBox.question
ClickDelete ==
    /\ Reachable
    /\ window.delete_button
    /\ Handled(IF HasSelection(window)
               THEN [Current EXCEPT !.dialog = "delete",
                                    !.dialog_profile = _current_selection_key(window)]
               ELSE Current)

\* credentials_button.clicked
ClickCredentials ==
    /\ Reachable
    /\ window.credentials_button
    /\ \E o \in PromptOutcomes : Handled(_set_credentials_selected(Current, o))

Closed(w) == [w EXCEPT !.dialog = "", !.dialog_profile = None]

\* the profile dialog is accepted: dialog.profile_spec() builds a VpnProfileSpec
\* without its tunnel_type, the TypeError ends the slot at line 414 or 430
AcceptProfileDialog ==
    /\ window.dialog = "profile"
    /\ Handled(Closed(Current))

\* the profile dialog is cancelled, or the question box answered with No
RejectDialog ==
    /\ window.dialog # ""
    /\ Handled(IF window.dialog = "delete"
               THEN _delete_profile(Closed(Current), window.dialog_profile, FALSE)
               ELSE Closed(Current))

\* the question box is answered with Yes
ConfirmDelete ==
    /\ window.dialog = "delete"
    /\ Handled(_delete_profile(Closed(Current), window.dialog_profile, TRUE))

\* auto_refresh_timer.timeout
_auto_refresh_tick ==
    /\ ~(window.busy \/ window.refresh_in_flight)
    /\ Handled(refresh_profiles(Current, None, None, TRUE))

\* Worker.run has ended having got r from its function, and the signal has
\* reached its slot: the window as the slot finds it
Taken(x, r, signal) ==
    [Current EXCEPT !.thread_pool = @ (-) SetToBag({x}),
                    !.delivered = [worker |-> x, emitted |-> Emitted(r),
                                   signal |-> signal, result |-> r]]

\* a list_profiles worker ends and its finished signal reaches _on_profiles_loaded
OnProfilesLoaded ==
    \E x \in BagToSet(window.thread_pool) :
        /\ x.fn = "list_profiles"
        /\ \E r \in Returns(x) :
              /\ "finished" \in Emitted(r)
              /\ Handled(_on_profiles_loaded(Taken(x, r, "finished"), r.profiles))

OnConnectFinished ==
    \E x \in BagToSet(window.thread_pool) :
        /\ x.fn = "connect_and_wait"
        /\ \E r \in Returns(x) :
              /\ "finished" \in Emitted(r)
              /\ Handled(_on_connect_finished(Taken(x, r, "finished"), r.result))

OnDisconnectFinished ==
    \E x \in BagToSet(window.thread_pool) :
        /\ x.fn = "disconnect"
        /\ \E r \in Returns(x) :
              /\ "finished" \in Emitted(r)
              /\ Handled(_on_disconnect_finished(Taken(x, r, "finished"), r.result))

OnDeleteFinished ==
    \E x \in BagToSet(window.thread_pool) :
        /\ x.fn = "delete_profile"
        /\ \E r \in Returns(x) :
              /\ "finished" \in Emitted(r)
              /\ Handled(_on_delete_finished(Taken(x, r, "finished"), r.result))

\* a worker ends and its error signal reaches _on_worker_error
OnWorkerError ==
    \E x \in BagToSet(window.thread_pool) :
        \E r \in Returns(x) :
            /\ "error" \in Emitted(r)
            /\ Handled(_on_worker_error(Taken(x, r, "error"), Traceback(r)))

WindowNext ==
    \/ ClickRefresh
    \/ ToggleIncludeAllUsers
    \/ SelectRow
    \/ DoubleClickRow
    \/ ClickConnect
    \/ ClickNew
    \/ ClickEdit
    \/ ClickDelete
    \/ ClickCredentials
    \/ AcceptProfileDialog
    \/ RejectDialog
    \/ ConfirmDelete
    \/ _auto_refresh_tick
    \/ OnProfilesLoaded
    \/ OnConnectFinished
    \/ OnDisconnectFinished
    \/ OnDeleteFinished
    \/ OnWorkerError

WindowSpec == Init /\ [][WindowNext]_vars

(***************************************************************************)
(* The window with its thread pool at work: a worker that was started ends  *)
(* in the end and the signal it emitted reaches its slot                    *)
(***************************************************************************)
\* the workers of the pool that run one of the functions
Running(w, functions) == {x \in BagToSet(w.thread_pool) : x.fn \in functions}

\* QThreadPool runs every worker it was given and Qt delivers every signal
\* emitted. A worker in the pool can always end, and the step in which it ends
\* leaves it in window.delivered; so the workers of a kind not staying in the
\* pool for ever without one of them ending is: again and again none is in the
\* pool or one has just ended
Completes(functions) ==
    []<>(Running(window, functions) = {} \/ window.delivered.worker.fn \in functions)

WindowFairness ==
    /\ Completes({"list_profiles"})
    /\ Completes({"connect_and_wait", "disconnect", "delete_profile"})

FairWindowSpec == Init /\ [][WindowNext]_vars /\ WindowFairness

(***************************************************************************)
(* Functions without state, applied to inputs of their own                 *)
(***************************************************************************)
\* messages of failures handed to _is_credential_issue
FailureTexts ==
    { "", "Error 691", "RAS-FEHLER 691: ZUGRIFF VERWEIGERT", "Fehler:691",
      "server unreachable", "The PASSWORD was rejected.", "Benutzername unbekannt",
      "Das Kennwort ist falsch", "Invalid Credential", "UserName missing",
      "rasdial Timed Out", "rasdial returned an error.", "Port 1723 is closed" }

\* diagnostic details of failures handed to _is_credential_issue
DiagnosticTexts ==
    { "", "Remote Access error 868 - server unreachable", "691", "exit code 691",
      "Zugriff Verweigert", "Access is denied.", "AUTHENTIFIZIERUNGSPROTOKOLL",
      "No connections" }

\* status words as the subsystem or a result can spell them
StatusWords ==
    { "", "connected", "Connected", "CONNECTED", "connecting", "Connecting",
      "disconnected", "Disconnected", "notconnected", "NotConnected", "NOTCONNECTED",
      "error", "Error", "ERROR", "unknown", "Unknown", "Dormant", "Limited",
      "Not Connected", "Connected." }

\* whitespace around a status word
Padding == {"", " ", "\t", "\r\n"}

\* a function is applied once, to any of its inputs
Apply_is_credential_issue ==
    /\ fn = ""
    /\ \E message \in FailureTexts, details \in DiagnosticTexts :
          /\ fn' = "_is_credential_issue"
          /\ args' = <<message, details>>
          /\ value' = _is_credential_issue(message, details)
    /\ UNCHANGED <<backend, storage, window>>

Apply_normalize_status ==
    /\ fn = ""
    /\ \E left \in Padding, word \in StatusWords, right \in Padding :
          /\ fn' = "_normalize_status"
          /\ args' = <<left \o word \o right>>
          /\ value' = _normalize_status(left \o word \o right)
    /\ UNCHANGED <<backend, storage, window>>

\* the profiles a cache can hold: each name in each scope, connected or not
CachedProfiles ==
    { VpnProfile(n, "vpn.example.com", "Ikev2", "Eap", status, all_users) :
      n \in Names, all_users \in BOOLEAN, status \in {"Connected", "NotConnected"} }

\* caches of MaxCached profiles
MaxCached == 3
Caches == [1..MaxCached -> CachedProfiles]

\* the window holding the cache, nothing pending and no worker running
Holding(cache) ==
    [Constructed EXCEPT !.profiles = cache, !.filtered_profiles = _sort_profiles(cache),
                        !.refresh_in_flight = FALSE, !.thread_pool = EmptyBag]

Apply_update_profile_status ==
    /\ fn = ""
    /\ \E cache \in Caches, name \in Names \cup {"Lab"}, all_users \in BOOLEAN,
          status \in {"Connecting", "Error", "Connected"} :
          /\ fn' = "_update_profile_status"
          /\ args' = <<cache, <<name, all_users>>, status>>
          /\ value' = _update_profile_status(Holding(cache), <<name, all_users>>, status).profiles
    /\ UNCHANGED <<backend, storage, window>>

\* os.environ.get("PROGRAMDATA"): the variable is not set, is set to the empty
\* text, or names a directory
NotSet == [set |-> FALSE, text |-> ""]
SetTo(text) == [set |-> TRUE, text |-> text]
Environments == {NotSet, SetTo(""), SetTo("C:\\ProgramData"), SetTo("D:\\")}

\* os.path.join of Windows for relative parts: a part is put after a backslash
\* unless what is there ends with a separator or a colon
RECURSIVE PathJoin(_, _)
PathJoin(base, parts) ==
    IF parts = <<>> THEN base
    ELSE PathJoin(IF base # "" /\ CharAt(base, Len(base)) \in {"\\", "/", ":"}
                  THEN base \o Head(parts)
                  ELSE base \o "\\" \o Head(parts),
                  Tail(parts))

\* _rasphonebook_path, in the environment environ: None or <<the path>>
_rasphonebook_path(all_users, environ) ==
    IF ~all_users THEN None
    ELSE IF ~environ.set \/ environ.text = "" THEN None
    ELSE <<PathJoin(environ.text,
                    <<"Microsoft", "Network", "Connections", "Pbk", "rasphone.pbk">>)>>

\* the arguments that connect and disconnect give to rasdial.exe
_rasdial_args(name, all_users, disconnect_, environ) ==
    <<name>>
    \o (IF _rasphonebook_path(all_users, environ) # None
        THEN <<"/PHONEBOOK:" \o _rasphonebook_path(all_users, environ)[1]>>
        ELSE <<>>)
    \o (IF disconnect_ THEN <<"/disconnect">> ELSE <<>>)

\* open_native_credential_prompt, lines 153-157: the command it runs
PromptArgs(name, all_users, environ) ==
    <<"rasphone.exe">>
    \o (IF _rasphonebook_path(all_users, environ) # None
        THEN <<"-f", _rasphonebook_path(all_users, environ)[1]>>
        ELSE <<>>)
    \o <<"-d", name>>

Apply_rasdial_args ==
    /\ fn = ""
    /\ \E name \in Names, all_users \in BOOLEAN, disconnect_ \in BOOLEAN,
          environ \in Environments :
          /\ fn' = "_rasdial_args"
          /\ args' = <<name, all_users, disconnect_, environ>>
          /\ value' = _rasdial_args(name, all_users, disconnect_, environ)
    /\ UNCHANGED <<backend, storage, window>>

Apply_open_native_credential_prompt ==
    /\ fn = ""
    /\ \E name \in Names, all_users \in BOOLEAN, environ \in Environments :
          /\ fn' = "open_native_credential_prompt"
          /\ args' = <<name, all_users, environ>>
          /\ value' = PromptArgs(name, all_users, environ)
    /\ UNCHANGED <<backend, storage, window>>

PureNext ==
    \/ Apply_is_credential_issue
    \/ Apply_normalize_status
    \/ Apply_update_profile_status
    \/ Apply_rasdial_args
    \/ Apply_open_native_credential_prompt

PureSpec == Init /\ [][PureNext]_vars

(***************************************************************************)
(* Properties                                                              *)
(***************************************************************************)
InConnectAndWait == call.op = "connect_and_wait"

\* _connect_with_credential_recovery has returned
Recovered == dispatch # NoResult

\* positions of the history at which cmd was run
Positions(cmd) == {i \in 1..Len(log) : log[i].cmd = cmd}

\* the status a poll of the running call observed last ("" when none did)
LastObserved ==
    IF Positions("status") = {} THEN ""
    ELSE log[CHOOSE i \in Positions("status") : \A j \in Positions("status") : j <= i].out

StartsWith(s, prefix) == Len(prefix) <= Len(s) /\ SubSeq(s, 1, Len(prefix)) = prefix

\* C1: one invocation of connect_with_recovery opens at most one credential
\* prompt and issues at most two connects; the second connect is issued exactly
\* when the prompt returned success, and then the value returned is the retry's
\* outcome (its success flag, status and details) with a message that notes the
\* prompt and the retry.
C1_SinglePromptSingleRetry ==
    InConnectAndWait =>
        /\ Count("prompt") <= 1
        /\ Count("connect") <= 2
        /\ (Count("connect") = 2 => Count("prompt") = 1 /\ prompt.success)
        /\ (Recovered =>
              /\ (Count("connect") = 2 <=> (Count("prompt") = 1 /\ prompt.success))
              /\ (Count("connect") = 2 =>
                    /\ dispatch.success = retry.success
                    /\ dispatch.status = retry.status
                    /\ dispatch.details = retry.details
                    /\ Contains(Lower(dispatch.message), "prompt")
                    /\ Contains(Lower(dispatch.message), "retried")
                    /\ (~retry.success => StartsWith(dispatch.message, retry.message))))

\* C1 witness: a recovery that prompted, retried and returned the failed retry
C1_Witness ==
    /\ InConnectAndWait /\ Recovered
    /\ Count("prompt") = 1 /\ Count("connect") = 2
    /\ ~dispatch.success

\* C2: the credential prompt is opened if and only if the first connect failed
\* and its message and details match the credential-issue heuristic; after a
\* successful first connect or a failure that does not match, no prompt is
\* opened and exactly one connect is issued.
C2_PromptIffCredentialFailure ==
    InConnectAndWait =>
        IF first = NoResult
        THEN Count("prompt") = 0 /\ Count("connect") = 0
        ELSE LET credential == ~first.success
                                /\ _is_credential_issue(first.message, first.details)
             IN  /\ (Count("prompt") > 0 => credential)
                 /\ (credential /\ pc # "cw_prompt" => Count("prompt") = 1)
                 /\ (~credential => Count("prompt") = 0 /\ Count("connect") = 1)

\* C2 witness: a call that ended after a first failure that is not credential-related
C2_Witness ==
    /\ InConnectAndWait /\ pc = "done"
    /\ first # NoResult /\ ~first.success
    /\ Contains(first.details, "server unreachable")
    /\ Count("prompt") = 0 /\ Count("connect") = 1

\* C3: connect_and_wait returns success with status Connected at the first poll
\* that observes Connected: nothing (no sleep, no status query) follows that poll;
\* and it returns success only if a poll after the connect dispatch observed
\* Connected.
C3_ReturnsAtFirstConnected ==
    InConnectAndWait =>
        /\ \A i \in Positions("status") :
              log[i].out = "Connected" =>
                  /\ i = Len(log)
                  /\ pc = "done"
                  /\ ret.kind = "result"
                  /\ ret.result.success
                  /\ ret.result.status = "Connected"
        /\ (ret.kind = "result" /\ ret.result.success =>
              \E i \in Positions("status") :
                  /\ log[i].out = "Connected"
                  /\ \A j \in Positions("connect") : j < i)

\* C3 witness: Connecting, then Connected, returned before max_wait had elapsed
C3_Witness ==
    /\ InConnectAndWait /\ pc = "done"
    /\ ret.kind = "result" /\ ret.result.success
    /\ Count("status") = 2
    /\ \E i \in Positions("status") : log[i].out = "Connecting"
    /\ waited < call.max_wait

\* C4: once a poll of connect_and_wait observes Error, no further status query
\* (and no further sleep) is issued, and the call returns a failure with status
\* Error.
C4_StopsOnError ==
    InConnectAndWait =>
        \A i \in Positions("status") :
            log[i].out = "Error" =>
                /\ i = Len(log)
                /\ pc = "done"
                /\ ret.kind = "result"
                /\ ~ret.result.success
                /\ ret.result.status = "Error"

\* C4 witness: the second poll observed Error while budget was left
C4_Witness ==
    /\ InConnectAndWait /\ pc = "done"
    /\ Count("status") = 2
    /\ LastObserved = "Error"
    /\ waited < call.max_wait

\* C5: when connect-with-recovery returns a failure, connect_and_wait returns at
\* once with success=false and status Error: it never sleeps and never queries
\* the status.
C5_FailedDispatchReturnsAtOnce ==
    InConnectAndWait /\ Recovered /\ ~dispatch.success =>
        /\ pc = "done"
        /\ ret.kind = "result"
        /\ ~ret.result.success
        /\ ret.result.status = "Error"
        /\ Count("sleep") = 0
        /\ Count("status") = 0

\* C5 witness: the dispatch failed because the credential prompt failed
C5_Witness ==
    /\ InConnectAndWait /\ Recovered /\ ~dispatch.success
    /\ Count("prompt") = 1 /\ ~prompt.success
    /\ call.max_wait > 0

\* C6: a connect_and_wait that was dispatched and ended without reaching
\* Connected returns a failure whose status is the last status a poll observed,
\* or Error if no poll ever observed one (stated as claimed).
C6_Claim ==
    InConnectAndWait /\ pc = "done" /\ Recovered /\ dispatch.success
    /\ ret.kind = "result" /\ ~ret.result.success =>
        ret.result.status = (IF Count("status") = 0 THEN "Error" ELSE LastObserved)

\* C7: get_status always returns a value, and every failure of its query
\* (non-zero exit, unparseable output, timeout) yields Error (stated as claimed).
C7_Claim ==
    call.op = "get_status" /\ pc = "done" =>
        /\ ret.kind = "status"
        /\ (log[1].fault # "" => ret.status = "Error")

\* the operations C8 names
BoundaryOperations ==
    {"list_profiles", "create_profile", "update_profile", "delete_profile",
     "connect", "disconnect", "connect_and_wait"}

\* C8: no command failure (non-zero exit, malformed output, timeout) leaves a
\* public operation as a raised exception (stated as claimed).
C8_Claim ==
    call.op \in BoundaryOperations /\ pc = "done" => ret.kind # "raise"

\* the OperationResults the running call holds or has returned
ResultsHeld ==
    {r \in {first, prompt, retry, dispatch} : r # NoResult}
    \cup (IF ret.kind = "result" THEN {ret.result} ELSE {})

\* C9: an OperationResult with success=false never carries the status Connected,
\* whichever operation produced it.
C9_FailureNeverConnected ==
    \A r \in ResultsHeld : ~r.success => Lower(r.status) # "connected"

\* C9 witness: a disconnect whose command failed returned its failure
C9_Witness ==
    /\ pc = "done" /\ ret.kind = "result" /\ ~ret.result.success
    /\ call.op = "disconnect"

StatusValues == {"Connected", "Connecting", "Disconnected", "Unknown", "Error"}

\* C10: every status the backend hands out (get_status, the non-empty status of
\* an OperationResult, the connection_status of a listed profile) is one of the
\* five StatusValues (stated as claimed).
C10_Claim ==
    pc = "done" =>
        /\ (ret.kind = "status" => ret.status \in StatusValues)
        /\ (ret.kind = "result" /\ ret.result.status # "" => ret.result.status \in StatusValues)
        /\ (ret.kind = "profiles" =>
              \A i \in 1..Len(ret.profiles) : ret.profiles[i].connection_status \in StatusValues)

\* C11: when the first connect succeeds, or fails with text that does not match
\* the credential-issue heuristic, _connect_with_credential_recovery returns that
\* connect's result with its success flag, message, status and details unchanged,
\* and nothing but that one connect was run.
C11_FirstResultReturnedAsIs ==
    InConnectAndWait /\ Recovered
      /\ (first.success \/ ~_is_credential_issue(first.message, first.details)) =>
        /\ dispatch.success = first.success
        /\ dispatch.message = first.message
        /\ dispatch.status = first.status
        /\ dispatch.details = first.details
        /\ Count("prompt") = 0 /\ Count("connect") = 1

\* C11 witness: a failed first connect without credential text came back as it was
C11_Witness ==
    /\ InConnectAndWait /\ Recovered
    /\ ~first.success
    /\ ~_is_credential_issue(first.message, first.details)
    /\ first.message = "rasdial returned an error."
    /\ dispatch = first

\* C12: when the first connect fails as credential-related and the credential
\* prompt fails or times out, no retry connect is issued and the value returned
\* is the original connect failure: success is false, status and details are the
\* first connect's, and the message is the first connect's message followed by a
\* note that carries the prompt's own failure message.
C12_PromptFailureKeepsRootCause ==
    InConnectAndWait /\ Count("prompt") = 1 /\ ~prompt.success =>
        /\ ~first.success /\ _is_credential_issue(first.message, first.details)
        /\ Count("connect") = 1 /\ retry = NoResult /\ pc # "cw_retry"
        /\ Recovered
        /\ ~dispatch.success
        /\ dispatch.status = first.status
        /\ dispatch.details = first.details
        /\ StartsWith(dispatch.message, first.message)
        /\ Len(dispatch.message) > Len(first.message) + Len(prompt.message)
        /\ SubSeq(dispatch.message, Len(dispatch.message) - Len(prompt.message) + 1,
                  Len(dispatch.message)) = prompt.message

\* C12 witness: the prompt timed out after a connect that failed with error 691
C12_Witness ==
    /\ InConnectAndWait /\ Recovered
    /\ Contains(first.details, "691")
    /\ Count("prompt") = 1
    /\ Contains(prompt.message, "timed out")
    /\ Count("connect") = 1

MutatingOperations == {"create_profile", "update_profile", "delete_profile"}

\* C13: a create_profile, update_profile or delete_profile for all users by a
\* caller that is not elevated returns a failure result and runs no external
\* command: the only thing it did is ask for the elevation, and last_error is
\* what it was before the call.
C13_SystemScopeGateBlocks ==
    [][(pc = "idle" /\ call'.op \in MutatingOperations /\ call'.all_users /\ admin' # "yes") =>
          /\ pc' = "done"
          /\ ret'.kind = "result"
          /\ ~ret'.result.success
          /\ log' = <<Ev("is_admin", admin')>>
          /\ last_error' = last_error]_vars

\* C13 witness: delete_profile for all users was refused to a caller who is not elevated
C13_Witness ==
    /\ call.op = "delete_profile" /\ pc = "done"
    /\ call.all_users /\ admin = "no"
    /\ ret.kind = "result" /\ ~ret.result.success
    /\ Count("mutate") = 0

\* C14: _ensure_admin returns a failure result exactly when all_users is set and
\* the elevation check does not report true, a faulting elevation query counting
\* as not elevated; it returns None when all_users is set and the caller is
\* elevated, and None whenever all_users is not set, whatever the elevation.
C14_EnsureAdminTruthTable ==
    call.op \in MutatingOperations /\ pc = "done" =>
        /\ admin \in AdminOutcomes
        /\ (admin_error # NoResult <=> (call.all_users /\ admin # "yes"))
        /\ (admin_error # NoResult =>
              /\ admin_error # NotAsked
              /\ ~admin_error.success
              /\ admin_error.status = "Error"
              /\ Len(admin_error.message) > 0)
        /\ (call.all_users /\ admin = "fault" => admin_error # NoResult)
        /\ (call.all_users /\ admin = "yes" => admin_error = NoResult)
        /\ (~call.all_users => admin_error = NoResult)

\* C14 witness: the elevation query faulted during an update for all users, and
\* the gate answered with its failure
C14_Witness ==
    /\ call.op = "update_profile" /\ pc = "done"
    /\ call.all_users /\ admin = "fault"
    /\ admin_error = AdminError

\* a finished list_profiles call
Listed == call.op = "list_profiles" /\ pc = "done"

\* the profiles made of the rows that the i-th entry of the history yielded
RowsAt(i, all_users) == _to_profiles(log[i].rows, all_users)

\* C15: list_profiles(include_all_users = true) by a caller that is not elevated
\* returns exactly the own-scope profiles, records a non-empty advisory in
\* last_error, and issues no system-scope query.
C15_Claim ==
    Listed /\ call.flag /\ admin # "yes" =>
        /\ ret.kind = "profiles"
        /\ ret.profiles = RowsAt(1, FALSE)
        /\ last_error # ""
        /\ Count("list_all") = 0

\* C15 restricted to the calls whose own-scope query did not raise
C15_WhenOwnQueryAnswers ==
    Listed /\ call.flag /\ admin # "yes" /\ log[1].fault = "" => C15_Claim

\* C16: list_profiles(include_all_users = false) never asks for the elevation and
\* never issues a system-scope query; it issues exactly one own-scope query.
C16_OwnScopeOnly ==
    call.op = "list_profiles" /\ ~call.flag =>
        /\ Count("is_admin") = 0
        /\ Count("list_all") = 0
        /\ Count("list_user") = 1
        /\ Len(log) = 1

\* C16 witness: an elevated caller listed two own-scope profiles without the flag
C16_Witness ==
    /\ Listed /\ ~call.flag /\ admin = "yes"
    /\ ret.kind = "profiles" /\ Len(ret.profiles) = 2
    /\ Count("list_user") = 1

\* C17: list_profiles(include_all_users = true) by an elevated caller whose
\* system-scope query fails returns all own-scope profiles and no system-scope
\* one, and records the failure in last_error; the call itself does not fail.
C17_Claim ==
    Listed /\ call.flag /\ admin = "yes" /\ Count("list_all") = 1 /\ log[3].fault # "" =>
        /\ ret.kind = "profiles"
        /\ ret.profiles = RowsAt(1, FALSE)
        /\ \A i \in 1..Len(ret.profiles) : ~ret.profiles[i].all_users
        /\ last_error # ""

\* C17 restricted to the failures of the system-scope query other than a timeout
C17_WhenNotTimedOut ==
    Listed /\ Count("list_all") = 1 /\ log[3].fault # "timeout" => C17_Claim

\* C18: when both queries succeed, list_profiles(include_all_users = true) returns
\* all own-scope profiles first, then all system-scope profiles, each profile
\* carrying the scope of the query that produced it, and last_error is empty.
C18_OwnThenSystem ==
    Listed /\ call.flag /\ Count("list_all") = 1 /\ log[1].fault = "" /\ log[3].fault = "" =>
        /\ ret.kind = "profiles"
        /\ ret.profiles = RowsAt(1, FALSE) \o RowsAt(3, TRUE)
        /\ Len(ret.profiles) = Len(log[1].rows) + Len(log[3].rows)
        /\ \A i \in 1..Len(ret.profiles) :
              ret.profiles[i].all_users = (i > Len(log[1].rows))
        /\ last_error = ""

\* C18 witness: two own-scope profiles and one system-scope profile of the same
\* name as the first were listed
C18_Witness ==
    /\ Listed /\ call.flag /\ admin = "yes"
    /\ ret.kind = "profiles" /\ Len(ret.profiles) = 3
    /\ ret.profiles[1].name = "Work" /\ ~ret.profiles[1].all_users
    /\ ret.profiles[3].name = "Work" /\ ret.profiles[3].all_users
    /\ last_error = ""

\* C19: disconnect issues one disconnect command; when the command succeeds the
\* status is queried exactly once afterwards and the result carries the status
\* that query observed; when the command fails no status query is issued and the
\* result is a failure.
C19_Claim ==
    call.op = "disconnect" /\ pc = "done" =>
        /\ Count("disconnect") = 1
        /\ log[1].cmd = "disconnect"
        /\ ret.kind = "result"
        /\ IF log[1].out = "ok"
           THEN /\ Len(log) = 2 /\ log[2].cmd = "status"
                /\ ret.result.success
                /\ ret.result.status = log[2].out
           ELSE /\ Len(log) = 1
                /\ ~ret.result.success

\* C19 restricted to the calls whose status query did not time out
C19_WhenStatusQueryAnswers ==
    call.op = "disconnect" /\ pc = "done" /\ (Len(log) = 2 => log[2].fault # "timeout")
        => C19_Claim

\* C20: a result reports the status Connected only after a status query of the
\* same call observed Connected; in particular a connect whose command exited
\* cleanly does not report Connected by itself.
C20_Claim ==
    pc = "done" /\ ret.kind = "result" /\ IsConnected(ret.result.status) =>
        \E i \in Positions("status") : IsConnected(log[i].out)

\* C20 restricted to the operations other than connect
C20_ExceptConnect ==
    call.op # "connect" => C20_Claim

\* connect_and_wait has returned a failure after a successful dispatch
FailedAfterDispatch ==
    /\ InConnectAndWait /\ pc = "done"
    /\ dispatch.success
    /\ ret.kind = "result" /\ ~ret.result.success

\* the message advises the user about credentials
CarriesCredentialHint(message) == Contains(Lower(message), "save credentials")

\* C21: when connect_and_wait fails by deadline exhaustion, its message carries a
\* credential hint only if the diagnostic text of the dispatch matches the
\* credential-issue heuristic; with diagnostics that do not match, the message
\* carries no credential hint.
C21_Claim ==
    FailedAfterDispatch /\ ~IsError(last_status) =>
        (CarriesCredentialHint(ret.result.message)
            => _is_credential_issue("", dispatch.details))

\* C22: a failure of connect_and_wait caused by a poll that observed Error is not
\* described as a timeout; only a failure by deadline exhaustion is, so the two
\* messages differ.
C22_Claim ==
    FailedAfterDispatch =>
        (Contains(Lower(ret.result.message), "timed out") <=> ~IsError(last_status))

\* the smallest integer that is at least a / b
Ceil(a, b) == (a + b - 1) \div b

C24_Claim ==
    fn = "_is_credential_issue" =>
        LET message == args[1]
            details == args[2]
            combined == Lower(message \o "\n" \o details)
        IN  /\ (value <=> \E f \in CredentialFragments : Contains(combined, f))
            /\ value = _is_credential_issue(Lower(message), Lower(details))
            /\ (Contains(combined, "691") => value)
            /\ (message = "server unreachable" /\ details = "" => ~value)

\* C24 without the sentence on the error code: the verdict follows the fragments
\* and does not depend on letter case
C24_ByFragments ==
    fn = "_is_credential_issue" =>
        LET message == args[1]
            details == args[2]
            combined == Lower(message \o "\n" \o details)
        IN  /\ (value <=> \E f \in CredentialFragments : Contains(combined, f))
            /\ value = _is_credential_issue(Lower(message), Lower(details))
            /\ (Contains(combined, " 691") => value)
            /\ (message = "server unreachable" /\ details = "" => ~value)

\* the words _normalize_status recognises
RecognisedWords == {"connected", "connecting", "disconnected", "notconnected", "error"}

\* C27: _normalize_status returns one of the five StatusValues for every input;
\* the empty string, a string of whitespace only and an unrecognised string give
\* Unknown; a recognised word is recognised in any letter case and with any
\* whitespace around it.
C27_NormalizeStatusTotal ==
    fn = "_normalize_status" =>
        LET raw == args[1]
            word == Lower(Strip(raw))
        IN  /\ value \in StatusValues
            /\ (Strip(raw) = "" => value = "Unknown")
            /\ (word \notin RecognisedWords => value = "Unknown")
            /\ (word = "connected" => value = "Connected")
            /\ (word = "connecting" => value = "Connecting")
            /\ (word \in {"disconnected", "notconnected"} => value = "Disconnected")
            /\ (word = "error" => value = "Error")
            /\ value = _normalize_status(Lower(raw))
            /\ value = _normalize_status(" " \o raw \o "\n")

\* C27 witness: an upper-case word inside whitespace was recognised
C27_Witness ==
    /\ fn = "_normalize_status"
    /\ args = <<"\tNOTCONNECTED\r\n">>
    /\ value = "Disconnected"

\* C30: connect_and_wait always terminates: for every poll_interval >= 0 and
\* max_wait >= 0 and whatever the status queries observe, a call that has started
\* returns (or raises) after finitely many polls, each external command returning.
C30_Claim == InConnectAndWait ~> (pc = "done")

\* C30 for the calls with a positive poll_interval
C30_WhenIntervalPositive ==
    (InConnectAndWait /\ call.poll_interval > 0) ~> (pc = "done")

\* a listing that covers the scope of the profile created last has returned
ListedCreated ==
    /\ Listed /\ ret.kind = "profiles"
    /\ created # NoSpec
    /\ (created.all_users => call.flag /\ admin = "yes")

\* C23: after a successful create_profile(spec) for any tunnel_type and scope,
\* against a store that records and echoes the mutation, list_profiles yields a
\* profile of that scope whose name, server_address and tunnel_type are the
\* spec's.
C23_Claim ==
    ListedCreated =>
        \E i \in 1..Len(ret.profiles) :
            /\ ret.profiles[i].all_users = created.all_users
            /\ ret.profiles[i].name = created.spec.name
            /\ ret.profiles[i].server_address = created.spec.server_address
            /\ ret.profiles[i].tunnel_type = created.spec.tunnel_type

\* C23 for name and server_address alone
C23_NameAndServer ==
    ListedCreated =>
        \E i \in 1..Len(ret.profiles) :
            /\ ret.profiles[i].all_users = created.all_users
            /\ ret.profiles[i].name = created.spec.name
            /\ ret.profiles[i].server_address = created.spec.server_address
            /\ ret.profiles[i].tunnel_type = "Automatic"

\* C29: updating the cached status for a key changes only the cached profiles
\* whose name and scope both equal the key: those get the status, and a profile
\* of the same name in the other scope, like every other profile, stays as it
\* was
C29_OnlyTheKey ==
    fn = "_update_profile_status" =>
        /\ Len(value) = Len(args[1])
        /\ \A i \in 1..Len(args[1]) :
              IF args[1][i].name = args[2][1] /\ args[1][i].all_users = args[2][2]
              THEN value[i] = [args[1][i] EXCEPT !.connection_status = args[3]]
              ELSE value[i] = args[1][i]

\* the cache holds the key's name in both scopes, a profile of another name
\* too, and the update changed the status of the key's profile
C29_Witness ==
    /\ fn = "_update_profile_status"
    /\ \E i, j, k \in 1..Len(args[1]) :
          /\ <<args[1][i].name, args[1][i].all_users>> = args[2]
          /\ args[1][j].name = args[2][1] /\ args[1][j].all_users # args[2][2]
          /\ args[1][k].name # args[2][1]
          /\ value[i] # args[1][i]
          /\ value[j] = args[1][j]
          /\ value[k] = args[1][k]

\* the user-initiated operations of the window
Operations == {"connect_and_wait", "disconnect", "create_profile", "update_profile",
               "delete_profile"}

\* the workers of the pool that run one of the functions
InFlight(functions) ==
    BagCardinality([x \in {y \in BagToSet(window.thread_pool) : y.fn \in functions} |->
                       window.thread_pool[x]])

\* C25: at any time at most one user-initiated backend operation dispatched by
\* the main window is in flight
C25_Claim == InFlight(Operations) <= 1

\* C26: when the function of a worker raised an exception, run() emitted the
\* error signal and not the finished signal, and the slot that the signal
\* reached logged the traceback, showed the line "Unexpected error. See log
\* file for details." and cleared the three pending keys of the window
C26_ErrorReported ==
    window.delivered.result.kind = "raise" =>
        /\ window.delivered.emitted = {"error"}
        /\ window.delivered.signal = "error"
        /\ window.logger_error = Traceback(window.delivered.result)
        /\ Contains(window.logger_error, window.delivered.result.exc)
        /\ window.log_output = <<"Unexpected error. See log file for details.">>
        /\ window.pending_status_key = None
        /\ window.pending_profile_key = None
        /\ window.pending_delete_row = None

\* a connect_and_wait worker raised while its key was pending: its error
\* signal has been handled
C26_Witness ==
    /\ window.delivered.result.kind = "raise"
    /\ window.delivered.worker.fn = "connect_and_wait"
    /\ window.delivered.signal = "error"
    /\ window.logger_error # ""

\* the workers of the window that list the profiles
Refreshes == {"list_profiles"}

\* C31: a list_profiles refresh and a mutating or connect/disconnect operation
\* dispatched by the main window are never in flight at the same time
C31_Claim == ~(InFlight(Refreshes) > 0 /\ InFlight(Operations) > 0)

\* C31, its second half: a step that starts a refresh worker leaves busy false
C31_NoRefreshWhileBusy ==
    [][InFlight(Refreshes)' > InFlight(Refreshes) => ~window'.busy]_vars

\* C31, the guarded half of the first: a connect or disconnect worker is
\* started only by a step that found refresh_in_flight false
C31_ToggleGuarded ==
    [][InFlight({"connect_and_wait", "disconnect"})' >
           InFlight({"connect_and_wait", "disconnect"}) => ~window.refresh_in_flight]_vars

\* C32: at most one list_profiles worker is in flight at any time, and
\* refresh_in_flight is true as long as a refresh worker is running
C32_Claim ==
    /\ InFlight(Refreshes) <= 1
    /\ InFlight(Refreshes) > 0 => window.refresh_in_flight

\* C32, the guard alone: a step that found refresh_in_flight true starts no
\* refresh worker
C32_NoOpWhileInFlight ==
    [][window.refresh_in_flight => InFlight(Refreshes)' <= InFlight(Refreshes)]_vars

\* C32, the finished path: when the result of a refresh worker has been handled
\* by _on_profiles_loaded, the flag is false
C32_ClearedByOwnResult ==
    window.delivered.worker.fn = "list_profiles" /\ window.delivered.signal = "finished"
        => ~window.refresh_in_flight

\* C33: each worker run emits exactly one of finished and error, and when the
\* workers end and their signals are delivered, busy becomes false again after
\* it was set and refresh_in_flight becomes false again after it was set
C33_NeverStaysLocked ==
    /\ [](window.delivered.worker.fn # "" =>
              /\ Cardinality(window.delivered.emitted) = 1
              /\ window.delivered.emitted \subseteq {"finished", "error"})
    /\ window.busy ~> ~window.busy
    /\ window.refresh_in_flight ~> ~window.refresh_in_flight

\* an operation was dispatched and a refresh was dispatched next to it; the
\* worker of the operation has ended, its slot has run and busy is false, the
\* refresh is still running
C33_Witness ==
    /\ window.delivered.worker.fn \in Operations
    /\ Cardinality(window.delivered.emitted) = 1
    /\ ~window.busy
    /\ window.refresh_in_flight
    /\ InFlight(Refreshes) > 0

\* the status that the end of a connect operation is to leave in the cache:
\* the status of its result, Error when there is none
StatusOf(r) == IF r.kind = "result" THEN Or(r.result.status, "Error") ELSE "Error"

\* the cached profiles of the worker's key all have the status
Cached(x, status) ==
    /\ \A i \in 1..Len(window.profiles) :
          _profile_key(window.profiles[i]) = <<x.name, x.all_users>>
              => window.profiles[i].connection_status = status
    /\ \A i \in 1..Len(window.filtered_profiles) :
          _profile_key(window.filtered_profiles[i]) = <<x.name, x.all_users>>
              => window.filtered_profiles[i].connection_status = status

\* C34: when a connect operation has ended, through the finished signal or
\* through the error signal, the cached connection_status of its profile is the
\* status of the operation's result, Error when there is none
C34_Claim ==
    window.delivered.worker.fn = "connect_and_wait"
        => Cached(window.delivered.worker, StatusOf(window.delivered.result))

\* C34 on the finished path: the slot of the finished signal that finds the
\* key of its worker still pending leaves the status of the result in the cache
C34_WhenFinished ==
    [][(/\ window'.delivered.worker.fn = "connect_and_wait"
        /\ window'.delivered.signal = "finished"
        /\ window.pending_status_key =
               <<window'.delivered.worker.name, window'.delivered.worker.all_users>>)
       => Cached(window.delivered.worker, StatusOf(window.delivered.result))']_vars

\* the command names a phonebook
NamesPhonebook(command) ==
    \E i \in 1..Len(command) : StartsWith(command[i], "/PHONEBOOK:") \/ command[i] = "-f"

\* C35: every command issued for a system-scope profile carries the system
\* phonebook argument and differs from the command issued for the profile of
\* the same name in the user scope, in every environment
C35_Claim ==
    /\ fn = "_rasdial_args" /\ args[2] =>
          /\ NamesPhonebook(value)
          /\ value # _rasdial_args(args[1], FALSE, args[3], args[4])
    /\ fn = "open_native_credential_prompt" /\ args[2] =>
          /\ NamesPhonebook(value)
          /\ value # PromptArgs(args[1], FALSE, args[3])

\* C35 where PROGRAMDATA names a directory
C35_WhenProgramDataSet ==
    /\ fn = "_rasdial_args" /\ args[2] /\ args[4].set /\ args[4].text # "" =>
          /\ NamesPhonebook(value)
          /\ value # _rasdial_args(args[1], FALSE, args[3], args[4])
    /\ fn = "open_native_credential_prompt" /\ args[2] /\ args[3].set /\ args[3].text # "" =>
          /\ NamesPhonebook(value)
          /\ value # PromptArgs(args[1], FALSE, args[3])

====
